---------------------------- MODULE Spec2Model ----------------------------
(***************************************************************************)
(* A model of the ingestion pipeline of crispy-broccoli:                   *)
(*   - the rate limiter and the paginated client (internal/ingest client), *)
(*   - the columnar row parser (internal/ingest parser).                   *)
(*                                                                         *)
(* Time.  The code reads a wall clock (time.Now) and only ever uses        *)
(* differences of readings, so the model keeps, instead of absolute        *)
(* readings, the time elapsed since each event of interest, counted in     *)
(* ticks of 1/TicksPerSecond s and saturated at the largest value any      *)
(* comparison in the code or in a claim distinguishes (the limiter's       *)
(* interval).  A sleeping process cannot leave its sleep before the        *)
(* requested duration has passed.  For the bare callers of Wait time may   *)
(* pass at any moment (any arrival time, any scheduling delay).  Inside    *)
(* FetchTable time passes only where the code blocks: in time.Sleep and    *)
(* while a request is in flight (any latency); its computation steps take  *)
(* no time, so that every timing the model shows is one the program has.   *)
(***************************************************************************)
EXTENDS Integers, Sequences, FiniteSets, TLC

(***************************************************************************)
(* Bounds of the model and constants of the program.                       *)
(***************************************************************************)
\* clock resolution: ticks per second
TicksPerSecond == 4
\* the source serves at most MaxPages pages per fetch
MaxPages == 2
\* at most MaxCalls calls of rateLimiter.Wait by the bare callers
MaxCalls == 4
\* const rateLimit = 2 (requests per second)
rateLimit == 2
\* for attempt := 0; attempt < 3; attempt++
MaxAttempts == 3

Min(a, b) == IF a < b THEN a ELSE b
Max(a, b) == IF a < b THEN b ELSE a

\* the sequences over S of length at most n
RECURSIVE SeqsUpTo(_, _)
SeqsUpTo(S, n) ==
  IF n = 0 THEN {<<>>}
  ELSE LET shorter == SeqsUpTo(S, n - 1)
       IN shorter \cup {Append(q, x) : q \in {t \in shorter : Len(t) = n - 1}, x \in S}

\* newRateLimiter: interval = time.Second / time.Duration(requestsPerSecond)
interval == TicksPerSecond \div rateLimit

\* backoff := time.Duration(1<<attempt) * time.Second
Backoff(a) == (2 ^ a) * TicksPerSecond

(***************************************************************************)
(* Go pointers (to string, to Response) are options: <<>> is nil, <<v>>    *)
(* points to v.                                                            *)
(***************************************************************************)
Nil == <<>>
Ptr(v) == <<v>>
Deref(p) == p[1]

\* the process running FetchTable, and the bare callers of rateLimiter.Wait
Fetcher == "fetch"
Callers == {"w1", "w2", "w3"}
Procs == Callers \cup {Fetcher}

(***************************************************************************)
(* The data source.  A page carries column descriptors, data rows and      *)
(* meta.next_cursor_id.  FetchTable never looks inside a row, so a row is  *)
(* its ordinal among the rows the source has served in this fetch.         *)
(***************************************************************************)
ColumnLists == {<<>>, <<"ticker">>, <<"ticker", "date">>}
PageSizes == {0, 1, 2, 500, 1000}
NextCursors == {Nil, Ptr(""), Ptr("abc"), Ptr("xyz")}

PageRows(base, n) == [i \in 1..n |-> base + i]
SourceRows(n) == PageRows(0, n)

Terminal(next) == next = Nil \/ Deref(next) = ""

\* the failures of doRequest
Failures == {"transport", "throttled", "status", "decode"}

VARIABLES
  \* ---- rateLimiter
  mu,             \* r.mu: Nil when free, Ptr(p) when held by p
  sinceLastCall,  \* time since r.lastCall, saturated at interval
  wpc,            \* each process's position in Wait
  wsleep,         \* each process's remaining time.Sleep in Wait
  calls,          \* calls of Wait started by the bare callers
  \* ---- Client.FetchTable / fetchPage / doRequest
  pc,             \* position of the fetching process
  tableOK,        \* whether url.Parse accepts the table name
  ctxDone,        \* the caller's cancellation signal has fired
  allData,        \* FetchTable's allData
  cursorID,       \* FetchTable's cursorID (pointer to string)
  reqCursor,      \* the qopts.cursor_id of the current page request (Nil: not set)
  resp,           \* the response fetchPage returned (pointer to Response)
  attempt,        \* fetchPage's loop variable
  lastErr,        \* fetchPage's lastErr ("none" for nil)
  sleepLeft,      \* remaining time.Sleep of the retry backoff
  result,         \* what FetchTable returned: [resp, err]
  \* ---- history, read by the properties only
  version,        \* number of assignments to r.lastCall so far
  reads,          \* the versions of r.lastCall read by Wait, in order
  sinceReturn,    \* time since the last return of Wait, saturated at interval
  pageRequests,   \* calls of fetchPage that built a request
  pagesServed,    \* pages the source served successfully
  servedRows,     \* rows in those pages
  firstColumns,   \* the columns of the first page served (option)
  lastNext,       \* the next_cursor_id of the last page served
  attempts,       \* calls of doRequest in the current fetchPage
  failures,       \* of which failed
  sinceAttempt,   \* time since a request was last put on the wire, saturated at interval
  \* ---- the parser
  presp,          \* the Response handed to a parser
  parsed,         \* which parser has run ("none": not yet)
  rows,           \* the rows it returned
  \* ---- the repository
  db,             \* the store: the rows of each table
  up,             \* each writer's call of an upsert operation
  chunkLog,       \* the batches each writer's current call has sent: range, count, error
  ucalls,         \* calls of upsert operations so far
  updatedAt,      \* the column updated_at of each table, by the key of the row
  \* ---- the streaming ingestion handlers
  h,              \* the handler: its position, its locals and its response
  stream,         \* the items the stream has still to deliver
  sem,            \* slots of the write semaphore in use
  totalCount,     \* the handler's atomic counter of rows written
  gst,            \* each goroutine of the handler: free, or at work on an upsert
  writeLog,       \* history: the upserts the handler dispatched and what they returned
  \* ---- IngestHandler.IngestTickers
  tk              \* the request: its position and its response

limVars == <<mu, sinceLastCall, wpc, wsleep, calls, version, reads, sinceReturn>>
fetchVars == <<pc, tableOK, ctxDone, allData, cursorID, reqCursor, resp, attempt,
               lastErr, sleepLeft, result>>
histVars == <<pageRequests, pagesServed, servedRows, firstColumns, lastNext,
              attempts, failures, sinceAttempt>>
parseVars == <<presp, parsed, rows>>
repoVars == <<db, up, chunkLog, ucalls, updatedAt>>
ingestVars == <<h, stream, sem, totalCount, gst, writeLog>>
tickVars == <<tk>>
vars == <<limVars, fetchVars, histVars, parseVars, repoVars, ingestVars, tickVars>>

(***************************************************************************)
(* rateLimiter.Wait                                                        *)
(***************************************************************************)
\* a Wait that does not take the mutex
MutexFree_NoLock(p) == TRUE

\* r.mu.Lock() succeeds
MutexFree(p) == mu = Nil

\* now := time.Now(); elapsed := now.Sub(r.lastCall);
\* if elapsed < r.interval { time.Sleep(r.interval - elapsed) }
SleepFor(elapsed) == IF elapsed < interval THEN interval - elapsed ELSE 0

\* lines 43-50: lock, read the clock and lastCall, start the sleep
WaitEnter(p) ==
  /\ wpc[p] = "enter"
  /\ MutexFree(p)
  /\ mu' = Ptr(p)
  /\ wsleep' = [wsleep EXCEPT ![p] = SleepFor(sinceLastCall)]
  /\ reads' = Append(reads, version)
  /\ wpc' = [wpc EXCEPT ![p] = "asleep"]
  /\ UNCHANGED <<sinceLastCall, calls, version, sinceReturn>>

\* lines 51-52: the sleep is over; r.lastCall = time.Now(); unlock; return
WaitLeave(p) ==
  /\ wpc[p] = "asleep"
  /\ wsleep[p] = 0
  /\ sinceLastCall' = 0
  /\ version' = version + 1
  /\ mu' = IF mu = Ptr(p) THEN Nil ELSE mu
  /\ wpc' = [wpc EXCEPT ![p] = "returned"]
  /\ sinceReturn' = 0
  /\ UNCHANGED <<wsleep, calls, reads>>

\* a bare caller calls Wait (again)
CallWait(p) ==
  /\ p \in Callers
  /\ wpc[p] \in {"idle", "returned"}
  /\ calls < MaxCalls
  /\ calls' = calls + 1
  /\ wpc' = [wpc EXCEPT ![p] = "enter"]
  /\ UNCHANGED <<mu, sinceLastCall, wsleep, version, reads, sinceReturn>>

(***************************************************************************)
(* The clock.                                                              *)
(***************************************************************************)
\* where time passes
TimePasses ==
  \/ pc = "off"
  \/ pc = "wait" /\ wpc[Fetcher] = "asleep" /\ wsleep[Fetcher] > 0
  \/ pc = "backoff" /\ sleepLeft > 0
  \/ pc = "inflight"

Tick ==
  /\ TimePasses
  /\ sinceLastCall' = Min(sinceLastCall + 1, interval)
  /\ sinceReturn' = Min(sinceReturn + 1, interval)
  /\ sinceAttempt' = Min(sinceAttempt + 1, interval)
  /\ wsleep' = [p \in Procs |-> Max(wsleep[p] - 1, 0)]
  /\ sleepLeft' = Max(sleepLeft - 1, 0)
  /\ UNCHANGED <<mu, wpc, calls, version, reads>>
  /\ UNCHANGED <<pc, tableOK, ctxDone, allData, cursorID, reqCursor, resp, attempt,
                 lastErr, result>>
  /\ UNCHANGED <<pageRequests, pagesServed, servedRows, firstColumns, lastNext,
                 attempts, failures>>
  /\ UNCHANGED <<parseVars, tickVars, repoVars, ingestVars>>


(***************************************************************************)
(* Client.FetchTable, Client.fetchPage, Client.doRequest                   *)
(***************************************************************************)
EmptyResponse == [Columns |-> <<>>, Data |-> <<>>, NextCursorID |-> Nil]

\* if len(allData.Datatable.Columns) == 0 { allData.Datatable.Columns = resp.Datatable.Columns }
MergeColumns(all, page) == IF Len(all) = 0 THEN page ELSE all

\* a merge that keeps only the newest page
AppendData_Overwrite(all, page) == page

\* allData.Datatable.Data = append(allData.Datatable.Data, resp.Datatable.Data...)
AppendData(all, page) == all \o page

\* a loop exit that tests the pointer only
LastPage_NilOnly(next) == next = Nil

\* if resp.Meta.NextCursorID == nil || *resp.Meta.NextCursorID == "" { break }
LastPage(next) == next = Nil \/ Deref(next) = ""

\* if cursorID != nil { q.Set("qopts.cursor_id", *cursorID) }
CursorParam(cursor) == cursor

\* a loop bound off by one
InBudget_OffByOne(a) == a <= MaxAttempts

\* for attempt := 0; attempt < 3; attempt++
InBudget(a) == a < MaxAttempts

\* an error return that hands out the pages merged so far
FailFetch_Partial(all, err) == [resp |-> Ptr(all), err |-> err]

\* FetchTable: if err != nil { return nil, err }
FailFetch(all, err) == [resp |-> Nil, err |-> err]

\* FetchTable: return allData, nil
ReturnAll(all) == [resp |-> Ptr(all), err |-> "none"]

\* the pages the source may serve as its next page
SourcePages ==
  { [Columns |-> c, Data |-> PageRows(servedRows, n), NextCursorID |-> x] :
      c \in ColumnLists, n \in PageSizes,
      x \in {y \in NextCursors : pagesServed + 1 < MaxPages \/ Terminal(y)} }

FetchTableReturns(r) ==
  /\ pc' = "done"
  /\ result' = r

\* fetchPage lines 99-115: build the URL, then enter the rate limiter;
\* an unparsable table name returns an error at once
BuildRequest ==
  /\ pc = "call"
  /\ IF tableOK
       THEN /\ reqCursor' = CursorParam(cursorID)
            /\ pageRequests' = pageRequests + 1
            /\ wpc' = [wpc EXCEPT ![Fetcher] = "enter"]
            /\ pc' = "wait"
            /\ UNCHANGED result
       ELSE /\ FetchTableReturns(FailFetch(allData, "invalid table name"))
            /\ UNCHANGED <<reqCursor, pageRequests, wpc>>
  /\ attempt' = 0
  /\ lastErr' = "none"
  /\ attempts' = 0
  /\ failures' = 0
  /\ UNCHANGED <<mu, sinceLastCall, wsleep, calls, version, reads, sinceReturn>>
  /\ UNCHANGED <<tableOK, ctxDone, allData, cursorID, resp, sleepLeft>>
  /\ UNCHANGED <<pagesServed, servedRows, firstColumns, lastNext, sinceAttempt>>

\* the fetching process inside c.limiter.Wait()
FetchWaitEnter ==
  /\ pc = "wait"
  /\ WaitEnter(Fetcher)
  /\ UNCHANGED <<fetchVars, histVars>>

FetchWaitLeave ==
  /\ pc = "wait"
  /\ WaitLeave(Fetcher)
  /\ pc' = "loop"
  /\ UNCHANGED <<tableOK, ctxDone, allData, cursorID, reqCursor, resp, attempt,
                 lastErr, sleepLeft, result>>
  /\ UNCHANGED histVars

\* lines 120-125 and 140: the loop head; a retry starts its backoff sleep
LoopHead ==
  /\ pc = "loop"
  /\ IF InBudget(attempt)
       THEN /\ sleepLeft' = IF attempt > 0 THEN Backoff(attempt) ELSE 0
            /\ pc' = "backoff"
            /\ UNCHANGED result
       ELSE /\ FetchTableReturns(FailFetch(allData, "all retries failed"))
            /\ UNCHANGED sleepLeft
  /\ UNCHANGED limVars
  /\ UNCHANGED <<tableOK, ctxDone, allData, cursorID, reqCursor, resp, attempt, lastErr>>
  /\ UNCHANGED histVars

\* line 127: the sleep is over, doRequest is called.  http.Client.Do puts the
\* request on the wire unless the request's context is already cancelled
StartRequest ==
  /\ pc = "backoff"
  /\ sleepLeft = 0
  /\ pc' = "inflight"
  /\ attempts' = attempts + 1
  /\ sinceAttempt' = IF ctxDone THEN sinceAttempt ELSE 0
  /\ UNCHANGED limVars
  /\ UNCHANGED <<tableOK, ctxDone, allData, cursorID, reqCursor, resp, attempt,
                 lastErr, sleepLeft, result>>
  /\ UNCHANGED <<pageRequests, pagesServed, servedRows, firstColumns, lastNext, failures>>

\* doRequest returns a decoded page: fetchPage returns it (lines 128-130)
RequestOK ==
  /\ pc = "inflight"
  /\ ~ctxDone
  /\ \E page \in SourcePages :
       /\ resp' = Ptr(page)
       /\ pagesServed' = pagesServed + 1
       /\ servedRows' = servedRows + Len(page.Data)
       /\ firstColumns' = IF pagesServed = 0 THEN Ptr(page.Columns) ELSE firstColumns
       /\ lastNext' = page.NextCursorID
  /\ lastErr' = "none"
  /\ pc' = "merge"
  /\ UNCHANGED limVars
  /\ UNCHANGED <<tableOK, ctxDone, allData, cursorID, reqCursor, attempt, sleepLeft, result>>
  /\ UNCHANGED <<pageRequests, attempts, failures, sinceAttempt>>

\* doRequest returns an error: the transport failed (always so once the
\* context is cancelled), the status was 429 or not 200, or the body did not decode
RequestFails ==
  /\ pc = "inflight"
  /\ \E e \in Failures :
       /\ ctxDone => e = "transport"
       /\ lastErr' = e
  /\ failures' = failures + 1
  /\ pc' = "failed"
  /\ UNCHANGED limVars
  /\ UNCHANGED <<tableOK, ctxDone, allData, cursorID, reqCursor, resp, attempt,
                 sleepLeft, result>>
  /\ UNCHANGED <<pageRequests, pagesServed, servedRows, firstColumns, lastNext,
                 attempts, sinceAttempt>>

\* lines 132-138: if ctx.Err() != nil { return nil, ctx.Err() }, else next attempt
AfterFailure ==
  /\ pc = "failed"
  /\ IF ctxDone
       THEN /\ FetchTableReturns(FailFetch(allData, "context canceled"))
            /\ UNCHANGED attempt
       ELSE /\ attempt' = attempt + 1
            /\ pc' = "loop"
            /\ UNCHANGED result
  /\ UNCHANGED limVars
  /\ UNCHANGED <<tableOK, ctxDone, allData, cursorID, reqCursor, resp, lastErr, sleepLeft>>
  /\ UNCHANGED histVars

\* FetchTable lines 77-93: merge the page, then stop or follow the cursor
MergePage ==
  /\ pc = "merge"
  /\ LET page == Deref(resp)
         merged == [Columns |-> MergeColumns(allData.Columns, page.Columns),
                    Data |-> AppendData(allData.Data, page.Data),
                    NextCursorID |-> Nil]
     IN /\ allData' = merged
        /\ IF LastPage(page.NextCursorID)
             THEN /\ FetchTableReturns(ReturnAll(merged))
                  /\ UNCHANGED cursorID
             ELSE /\ cursorID' = page.NextCursorID
                  /\ pc' = "call"
                  /\ UNCHANGED result
  /\ UNCHANGED limVars
  /\ UNCHANGED <<tableOK, ctxDone, reqCursor, resp, attempt, lastErr, sleepLeft>>
  /\ UNCHANGED histVars

\* the caller's cancellation signal fires
Cancel ==
  /\ pc \notin {"off", "done"}
  /\ ~ctxDone
  /\ ctxDone' = TRUE
  /\ UNCHANGED limVars
  /\ UNCHANGED <<pc, tableOK, allData, cursorID, reqCursor, resp, attempt, lastErr,
                 sleepLeft, result>>
  /\ UNCHANGED histVars

(***************************************************************************)
(* The columnar row parser.                                                *)
(*                                                                         *)
(* A cell of a data row is a decoded JSON value: null, a string, or        *)
(* another primitive, which getString renders with fmt.Sprintf("%v").  A   *)
(* column descriptor is its name (the parser never reads the type).        *)
(* Positions count from 1.  The decimal fields of a row are extracted      *)
(* independently of the fields modelled here and take no part in the       *)
(* decision to emit a row.                                                 *)
(***************************************************************************)
\* at most MaxRows data rows in a parsed response
MaxRows == 2

NullCell == [k |-> "nil", v |-> ""]
Str(x) == [k |-> "str", v |-> x]
Num(x) == [k |-> "num", v |-> x]

Cells == {NullCell, Str(""), Str("AAPL"), Str("2024-01-02"), Num("7")}
DataRows == {<<>>} \cup {<<a>> : a \in Cells} \cup {<<a, b>> : a, b \in Cells}
ParseColumnLists ==
  { <<"ticker", "date">>, <<"ticker", "datekey">>, <<"date", "ticker">>,
    <<"datekey", "ticker">>, <<"date", "datekey">>, <<"ticker">> }

\* the zero time.Time
ZeroTime == [y |-> 1, m |-> 1, d |-> 1]

\* time.Parse with the layouts "2006-01-02", "2006-01-02T15:04:05.000Z" and
\* "2006-01-02 15:04:05", first match: the strings of the model that parse
ParseTime(x) ==
  CASE x = "2024-01-02" -> Ptr([y |-> 2024, m |-> 1, d |-> 2])
    [] x = "2024-01-02 00:00:00" -> Ptr([y |-> 2024, m |-> 1, d |-> 2])
    [] x = "2023-12-31" -> Ptr([y |-> 2023, m |-> 12, d |-> 31])
    [] OTHER -> Nil

RECURSIVE IndexLoop(_, _, _)
IndexLoop(columns, i, idx) ==
  IF i > Len(columns) THEN idx
  ELSE IndexLoop(columns, i + 1,
         [n \in DOMAIN idx \cup {columns[i]} |-> IF n = columns[i] THEN i ELSE idx[n]])

\* buildColumnIndex: for i, col := range columns { idx[col.Name] = i }
buildColumnIndex(columns) == IndexLoop(columns, 1, [n \in {} |-> 0])

\* i, ok := idx[col]; if !ok || i >= len(row) || row[i] == nil
Absent(row, idx, col) ==
  \/ col \notin DOMAIN idx
  \/ idx[col] > Len(row)
  \/ row[idx[col]].k = "nil"

getString(row, idx, col) ==
  IF Absent(row, idx, col) THEN "" ELSE row[idx[col]].v

getTime(row, idx, col) ==
  IF Absent(row, idx, col) THEN Nil
  ELSE LET c == row[idx[col]]
       IN IF c.k = "str" /\ c.v # "" THEN ParseTime(c.v) ELSE Nil

\* a ParseTickers that keeps every row
TickersRow_NoFilter(row, idx) ==
  Ptr([Ticker |-> getString(row, idx, "ticker"),
       Name |-> getString(row, idx, "name"),
       LastUpdated |-> getTime(row, idx, "lastupdated")])

\* ParseTickers, the loop body: the TickerRow of a data row, Nil when none is appended
TickersRow(row, idx) ==
  LET tr == [Ticker |-> getString(row, idx, "ticker"),
             Name |-> getString(row, idx, "name"),
             LastUpdated |-> getTime(row, idx, "lastupdated")]
  IN IF tr.Ticker # "" THEN Ptr(tr) ELSE Nil

\* ParseSF1, the loop body
SF1Row(row, idx) ==
  LET dateKey == getTime(row, idx, "datekey")
      calendarDate == IF getTime(row, idx, "calendardate") = Nil
                        THEN dateKey ELSE getTime(row, idx, "calendardate")
  IN IF dateKey = Nil THEN Nil
     ELSE LET sr == [Ticker |-> getString(row, idx, "ticker"),
                     Dimension |-> getString(row, idx, "dimension"),
                     CalendarDate |-> Deref(calendarDate),
                     DateKey |-> Deref(dateKey),
                     LastUpdated |-> getTime(row, idx, "lastupdated"),
                     ReportPeriod |-> getTime(row, idx, "reportperiod")]
          IN IF sr.Ticker # "" THEN Ptr(sr) ELSE Nil

\* ParseDaily, the loop body
DailyRow(row, idx) ==
  LET date == getTime(row, idx, "date")
  IN IF date = Nil THEN Nil
     ELSE LET dr == [Ticker |-> getString(row, idx, "ticker"),
                     Date |-> Deref(date),
                     LastUpdated |-> getTime(row, idx, "lastupdated")]
          IN IF dr.Ticker # "" THEN Ptr(dr) ELSE Nil

\* ParseSP500, the loop body
SP500Row(row, idx) ==
  LET date == getTime(row, idx, "date")
      sr == [Action |-> getString(row, idx, "action"),
             Ticker |-> getString(row, idx, "ticker"),
             Name |-> getString(row, idx, "name"),
             Date |-> IF date # Nil THEN Deref(date) ELSE ZeroTime]
  IN IF sr.Ticker # "" THEN Ptr(sr) ELSE Nil

ParseRow(kind, row, idx) ==
  CASE kind = "tickers" -> TickersRow(row, idx)
    [] kind = "sf1" -> SF1Row(row, idx)
    [] kind = "daily" -> DailyRow(row, idx)
    [] kind = "sp500" -> SP500Row(row, idx)

\* for _, row := range resp.Datatable.Data { ... rows = append(rows, r) }
\* each appended row is kept with the position of the data row it was built from
RECURSIVE ParseLoop(_, _, _, _, _)
ParseLoop(kind, data, idx, i, acc) ==
  IF i > Len(data) THEN acc
  ELSE LET r == ParseRow(kind, data[i], idx)
       IN ParseLoop(kind, data, idx, i + 1,
                    IF r = Nil THEN acc ELSE Append(acc, [src |-> i, row |-> Deref(r)]))

Parse(kind, response) ==
  ParseLoop(kind, response.Data, buildColumnIndex(response.Columns), 1, <<>>)

\* a parser returns its rows
Return(kind, out) ==
  /\ parsed' = kind
  /\ rows' = out
  /\ UNCHANGED presp
  /\ UNCHANGED <<limVars, fetchVars, histVars, repoVars, ingestVars, tickVars>>

ParseTickers ==
  /\ parsed = "none"
  /\ Return("tickers", Parse("tickers", presp))

ParseSF1 ==
  /\ parsed = "none"
  /\ Return("sf1", Parse("sf1", presp))

ParseDaily ==
  /\ parsed = "none"
  /\ Return("daily", Parse("daily", presp))

ParseSP500 ==
  /\ parsed = "none"
  /\ Return("sp500", Parse("sp500", presp))

(***************************************************************************)
(* The repository (internal/db).                                           *)
(*                                                                         *)
(* A decimal.Decimal is coefficient * 10^exp with a sign; the model keeps  *)
(* coefficients below 100, which is enough to stand on either side of and  *)
(* exactly on every limit the code compares with.  A table is the set of   *)
(* its rows, a row a record of its columns.  pgx sends a Batch as one      *)
(* pipeline that the server runs in one implicit transaction: the          *)
(* statements run in order, the first rejected statement aborts the        *)
(* transaction (nothing of the batch is kept) and the results read by      *)
(* br.Exec are those of the statements before it, then the error.          *)
(***************************************************************************)
\* const dbBatchSize = 1000
dbBatchSize == 1000

Dec(neg, coef, exp) == [neg |-> neg, coef |-> coef, exp |-> exp]

\* decimal.NewFromInt
NewFromInt(v) == Dec(v < 0, IF v < 0 THEN 0 - v ELSE v, 0)

\* Decimal.Shift: multiply by 10^n
Shift(d, n) == [d EXCEPT !.exp = @ + n]

\* Decimal.Abs
Abs(d) == [d EXCEPT !.neg = FALSE]

Sign(d) == IF d.coef = 0 THEN 0 ELSE IF d.neg THEN 0 - 1 ELSE 1

\* the order of the magnitudes of a and b: -1, 0 or 1
CmpAbs(a, b) ==
  IF a.coef = 0 \/ b.coef = 0
    THEN (IF a.coef = b.coef THEN 0 ELSE IF a.coef = 0 THEN 0 - 1 ELSE 1)
  ELSE IF a.exp - b.exp >= 3 THEN 1
  ELSE IF b.exp - a.exp >= 3 THEN 0 - 1
  ELSE LET m == Min(a.exp, b.exp)
           x == a.coef * (10 ^ (a.exp - m))
           y == b.coef * (10 ^ (b.exp - m))
       IN IF x < y THEN 0 - 1 ELSE IF x = y THEN 0 ELSE 1

\* Decimal.Cmp
Cmp(a, b) ==
  IF Sign(a) # Sign(b) THEN (IF Sign(a) < Sign(b) THEN 0 - 1 ELSE 1)
  ELSE IF Sign(a) >= 0 THEN CmpAbs(a, b)
  ELSE 0 - CmpAbs(a, b)

\* Decimal.GreaterThan
GreaterThan(a, b) == Cmp(a, b) = 1

\* Limits for DECIMAL columns (digits before decimal point)
maxDecimal18_2 == Shift(NewFromInt(1), 16)
maxDecimal18_4 == Shift(NewFromInt(1), 14)
maxDecimal18_6 == Shift(NewFromInt(1), 12)

\* sanitizeDecimal: switch scale
Limit(scale) ==
  CASE scale = 2 -> maxDecimal18_2
    [] scale = 4 -> maxDecimal18_4
    [] scale = 6 -> maxDecimal18_6
    [] OTHER -> maxDecimal18_4

\* decimalPtr: nil for nil, else the value
decimalPtr(d) == IF d = Nil THEN Nil ELSE Ptr(Deref(d))

\* sanitizeDecimal: nil for nil and for a magnitude above the limit of the scale
sanitizeDecimal(d, scale) ==
  IF d = Nil THEN Nil
  ELSE IF GreaterThan(Abs(Deref(d)), Limit(scale)) THEN Nil
  ELSE Ptr(Deref(d))

(***************************************************************************)
(* The statements the upserts queue, one per row: the values bound to the  *)
(* columns of the INSERT.                                                  *)
(***************************************************************************)
\* reportPeriod := row.DateKey; if row.ReportPeriod != nil { reportPeriod = *row.ReportPeriod }
reportPeriod(row) ==
  IF row.ReportPeriod # Nil THEN Deref(row.ReportPeriod) ELSE row.DateKey

\* UpsertCompanies: the arguments of batch.Queue
CompanyStmt(t) ==
  [ticker |-> t.Ticker, name |-> t.Name, sector |-> t.Sector,
   industry |-> t.Industry, active |-> ~t.IsDelisted]

\* upsertFinancialMetricsBatch: the arguments of batch.Queue
MetricStmt(row) ==
  [ticker |-> row.Ticker, dimension |-> row.Dimension, date_key |-> row.DateKey,
   report_period |-> reportPeriod(row),
   revenue |-> sanitizeDecimal(row.Revenue, 2),
   net_income |-> sanitizeDecimal(row.NetIncome, 2),
   ebitda |-> sanitizeDecimal(row.EBITDA, 2),
   fcf |-> sanitizeDecimal(row.FCF, 2),
   roic |-> sanitizeDecimal(row.ROIC, 4),
   pe_ratio |-> sanitizeDecimal(row.PE, 4),
   ev_ebit |-> sanitizeDecimal(row.EVEBIT, 4),
   pb_ratio |-> sanitizeDecimal(row.PB, 4),
   debt_to_equity |-> sanitizeDecimal(row.DE, 4),
   market_cap |-> sanitizeDecimal(row.MarketCap, 2),
   enterprise_value |-> sanitizeDecimal(row.EV, 2),
   price |-> sanitizeDecimal(row.Price, 6),
   last_updated |-> row.LastUpdated]

\* upsertDailyPricesBatch: the arguments of batch.Queue
DailyStmt(row) ==
  [ticker |-> row.Ticker, date |-> row.Date,
   open |-> decimalPtr(row.Open), high |-> decimalPtr(row.High),
   low |-> decimalPtr(row.Low), close |-> decimalPtr(row.Close),
   volume |-> row.Volume,
   dividends |-> decimalPtr(row.Dividends), close_unadj |-> decimalPtr(row.CloseUnadj),
   market_cap |-> sanitizeDecimal(row.MarketCap, 2),
   enterprise_value |-> sanitizeDecimal(row.EV, 2),
   pe_ratio |-> sanitizeDecimal(row.PE, 4),
   pb_ratio |-> sanitizeDecimal(row.PB, 4),
   last_updated |-> row.LastUpdated]

\* UpsertBenchmarkPrices: the arguments of batch.Queue
BenchmarkStmt(row) ==
  [ticker |-> row.Ticker, date |-> row.Date,
   open |-> decimalPtr(row.Open), high |-> decimalPtr(row.High),
   low |-> decimalPtr(row.Low), close |-> decimalPtr(row.Close),
   volume |-> row.Volume,
   dividends |-> decimalPtr(row.Dividends), close_unadj |-> decimalPtr(row.CloseUnadj),
   last_updated |-> row.LastUpdated]

\* the table each upsert operation writes
TableOf(op) ==
  CASE op = "UpsertCompanies" -> "companies"
    [] op = "UpsertFinancialMetrics" -> "financial_metrics"
    [] op = "UpsertDailyPrices" -> "daily_prices"
    [] op = "UpsertBenchmarkPrices" -> "benchmark_prices"

Stmt(op, row) ==
  CASE op = "UpsertCompanies" -> CompanyStmt(row)
    [] op = "UpsertFinancialMetrics" -> MetricStmt(row)
    [] op = "UpsertDailyPrices" -> DailyStmt(row)
    [] op = "UpsertBenchmarkPrices" -> BenchmarkStmt(row)

\* for _, row := range rows { batch.Queue(...) }
Queue(op, batchRows) == [j \in 1..Len(batchRows) |-> Stmt(op, batchRows[j])]

(***************************************************************************)
(* The store.  The rows of a table carry the columns the upserts bind;     *)
(* the column updated_at, which the server assigns, is kept beside them in *)
(* updatedAt; id and created_at are not modelled.                          *)
(***************************************************************************)
\* the benchmarks table: seeded by its migration, never written by the program
benchmarks == {"SPY"}

\* ON CONFLICT (...) of each upsert statement
ConflictTarget(table) ==
  CASE table = "companies" -> {"ticker"}
    [] table = "financial_metrics" -> {"ticker", "date_key", "dimension"}
    [] table = "daily_prices" -> {"ticker", "date"}
    [] table = "benchmark_prices" -> {"ticker", "date"}

\* an upsert of financial_metrics that updates everything but report_period
SetList_NoReportPeriod(table) ==
  CASE table = "companies" -> {"name", "sector", "industry", "active"}
    [] table = "financial_metrics" ->
         {"revenue", "net_income", "ebitda", "fcf", "roic",
          "pe_ratio", "ev_ebit", "pb_ratio", "debt_to_equity", "market_cap",
          "enterprise_value", "price", "last_updated"}
    [] table = "daily_prices" ->
         {"open", "high", "low", "close", "volume", "dividends", "close_unadj",
          "market_cap", "enterprise_value", "pe_ratio", "pb_ratio", "last_updated"}
    [] table = "benchmark_prices" ->
         {"open", "high", "low", "close", "volume", "dividends", "close_unadj",
          "last_updated"}

\* the columns assigned by DO UPDATE SET c = EXCLUDED.c
SetList(table) ==
  CASE table = "companies" -> {"name", "sector", "industry", "active"}
    [] table = "financial_metrics" ->
         {"report_period", "revenue", "net_income", "ebitda", "fcf", "roic",
          "pe_ratio", "ev_ebit", "pb_ratio", "debt_to_equity", "market_cap",
          "enterprise_value", "price", "last_updated"}
    [] table = "daily_prices" ->
         {"open", "high", "low", "close", "volume", "dividends", "close_unadj",
          "market_cap", "enterprise_value", "pe_ratio", "pb_ratio", "last_updated"}
    [] table = "benchmark_prices" ->
         {"open", "high", "low", "close", "volume", "dividends", "close_unadj",
          "last_updated"}

\* the scale s of each DECIMAL(18, s) column, after the widening migrations
ColumnScale(table) ==
  CASE table = "companies" -> [c \in {} |-> 0]
    [] table = "financial_metrics" ->
         [revenue |-> 2, net_income |-> 2, ebitda |-> 2, fcf |-> 2,
          roic |-> 4, pe_ratio |-> 4, ev_ebit |-> 4, pb_ratio |-> 4,
          debt_to_equity |-> 4, market_cap |-> 2, enterprise_value |-> 2,
          price |-> 6]
    [] table = "daily_prices" ->
         [open |-> 6, high |-> 6, low |-> 6, close |-> 6, dividends |-> 6,
          close_unadj |-> 6, market_cap |-> 2, enterprise_value |-> 2,
          pe_ratio |-> 4, pb_ratio |-> 4]
    [] table = "benchmark_prices" ->
         [open |-> 6, high |-> 6, low |-> 6, close |-> 6, dividends |-> 6,
          close_unadj |-> 6]

\* a DECIMAL(18, s) column holds the magnitudes below 10^(18-s)
ColumnCapacity(s) == Shift(NewFromInt(1), 18 - s)
Fits(v, s) == v = Nil \/ CmpAbs(Deref(v), ColumnCapacity(s)) < 0

\* benchmark_prices keyed against the companies, as daily_prices is
Referenced_CompanyKeyed(d, table) ==
  CASE table = "companies" -> {}
    [] OTHER -> {c.ticker : c \in d.companies}

\* the tickers the foreign key of the table refers to
Referenced(d, table) ==
  CASE table = "companies" -> {}
    [] table = "financial_metrics" -> {c.ticker : c \in d.companies}
    [] table = "daily_prices" -> {c.ticker : c \in d.companies}
    [] table = "benchmark_prices" -> benchmarks

\* the store rejects the statement: foreign key violation or numeric field overflow
Rejects(d, table, stmt) ==
  \/ table # "companies" /\ stmt.ticker \notin Referenced(d, table)
  \/ \E c \in DOMAIN ColumnScale(table) : ~Fits(stmt[c], ColumnScale(table)[c])

Conflicts(old, new, target) == \A c \in target : old[c] = new[c]

\* INSERT ... ON CONFLICT (target) DO UPDATE SET c = EXCLUDED.c, for c in setList
ExecStmt(rel, new, target, setList) ==
  IF \E old \in rel : Conflicts(old, new, target)
    THEN { IF Conflicts(old, new, target)
             THEN [c \in DOMAIN old |-> IF c \in setList THEN new[c] ELSE old[c]]
             ELSE old : old \in rel }
    ELSE rel \cup {new}

\* the statements lo..hi run in order: lo..mid, then mid+1..hi (the test makes
\* TLC evaluate the first half before it starts the second)
RECURSIVE ExecRange(_, _, _, _, _, _)
ExecRange(rel, stmts, lo, hi, target, setList) ==
  IF lo > hi THEN rel
  ELSE IF lo = hi THEN ExecStmt(rel, stmts[lo], target, setList)
  ELSE LET mid == (lo + hi) \div 2
           first == ExecRange(rel, stmts, lo, mid, target, setList)
       IN IF first = first
            THEN ExecRange(first, stmts, mid + 1, hi, target, setList)
            ELSE first

\* the statement assigns NOW() to updated_at, in its VALUES and in its SET list
AssignsNow(table) == table \in {"companies", "financial_metrics"}

\* the key of a row: its values in the columns of the conflict target
Key(table, stmt) == [c \in ConflictTarget(table) |-> stmt[c]]

\* updated_at after the statements ran at the time now: NOW() for every row a
\* statement inserted or replaced, where the statement assigns it
Refresh(col, table, stmts, now) ==
  IF AssignsNow(table)
    THEN LET written == {Key(table, stmts[j]) : j \in 1..Len(stmts)}
         IN [k \in DOMAIN col \cup written |-> IF k \in written THEN now ELSE col[k]]
    ELSE col

\* updated_at of the rows of a store, all written at the time t
Stamps(d, t) ==
  [table \in DOMAIN d |->
     IF AssignsNow(table)
       THEN [k \in {Key(table, r) : r \in d[table]} |-> t]
       ELSE [k \in {} |-> t]]

\* the position of the first statement the store rejects, 0 when none
FirstRejected(d, table, stmts) ==
  LET bad == {j \in 1..Len(stmts) : Rejects(d, table, stmts[j])}
  IN IF bad = {} THEN 0 ELSE CHOOSE j \in bad : \A k \in bad : j <= k

\* br := r.pool.SendBatch(ctx, batch); count := 0;
\* for range rows { _, err := br.Exec(); if err != nil { return count, err }; count++ }
\* avail: the connection is up and the context is live
SendBatch(d, op, batchRows, avail) ==
  LET table == TableOf(op)
      stmts == Queue(op, batchRows)
      f == FirstRejected(d, table, stmts)
  IN IF ~avail THEN [count |-> 0, err |-> "connection", db |-> d]
     ELSE IF f > 0 THEN [count |-> f - 1, err |-> "rejected", db |-> d]
     ELSE [count |-> Len(stmts), err |-> "none",
           db |-> [d EXCEPT ![table] =
                     ExecRange(d[table], stmts, 1, Len(stmts),
                               ConflictTarget(table), SetList(table))]]

(***************************************************************************)
(* The upsert operations.  Upserts run concurrently (one goroutine per     *)
(* dispatched batch), each in one of the Writers.                          *)
(***************************************************************************)
Writers == {"u1", "u2"}
\* the goroutines a streaming handler starts, one per dispatched batch
GoroutineOrder == <<"g1", "g2", "g3", "g4">>
Goroutines == {GoroutineOrder[k] : k \in 1..Len(GoroutineOrder)}
Workers == Writers \cup Goroutines
\* at most MaxUpserts calls of upsert operations in a run
MaxUpserts == 2

Ops == {"UpsertCompanies", "UpsertFinancialMetrics", "UpsertDailyPrices",
        "UpsertBenchmarkPrices"}

\* UpsertFinancialMetrics and UpsertDailyPrices cut their input into chunks
Chunked(op) == op \in {"UpsertFinancialMetrics", "UpsertDailyPrices"}

\* an empty-input test that never fires
IsEmpty_Never(rows_) == FALSE

\* if len(rows) == 0 { return 0, nil }
IsEmpty(rows_) == Len(rows_) = 0

\* an end one row short of the step of the loop
ChunkEnd_OneShort(i, n) == IF i + dbBatchSize > n THEN n ELSE i + dbBatchSize - 1

\* end := i + dbBatchSize; if end > len(rows) { end = len(rows) }
ChunkEnd(i, n) == IF i + dbBatchSize > n THEN n ELSE i + dbBatchSize

\* a return that reports the last error whatever was written
UpsertResult_AnyError(total, err) ==
  IF err # "none" THEN [count |-> 0, err |-> err]
  ELSE [count |-> total, err |-> "none"]

\* if lastErr != nil && totalCount == 0 { return 0, lastErr }; return totalCount, nil
UpsertResult(total, err) ==
  IF err # "none" /\ total = 0 THEN [count |-> 0, err |-> err]
  ELSE [count |-> total, err |-> "none"]

IdleCall ==
  [st |-> "idle", op |-> "none", rows |-> <<>>, i |-> 0, totalCount |-> 0,
   lastErr |-> "none", ret |-> [count |-> 0, err |-> "none"]]

\* the entry of an upsert operation: an empty input returns (0, nil) at once
BeginUpsert(w, op, input) ==
  /\ up[w].st # "running"
  /\ chunkLog' = [chunkLog EXCEPT ![w] = <<>>]
  /\ up' = [up EXCEPT ![w] =
              [st |-> IF IsEmpty(input) THEN "returned" ELSE "running",
               op |-> op, rows |-> input, i |-> 0, totalCount |-> 0,
               lastErr |-> "none", ret |-> [count |-> 0, err |-> "none"]]]
  /\ UNCHANGED <<db, updatedAt>>

\* NOW(): the clock of the server, which advances as the upsert calls begin
NOW == ucalls

\* an upsert operation is called by a writer
UpsertCall(w, op, input) ==
  /\ ucalls < MaxUpserts
  /\ ucalls' = ucalls + 1
  /\ BeginUpsert(w, op, input)

\* UpsertFinancialMetrics, UpsertDailyPrices: one iteration of the chunk loop
UpsertChunk(w) ==
  /\ up[w].st = "running"
  /\ Chunked(up[w].op)
  /\ up[w].i < Len(up[w].rows)
  /\ \E avail \in BOOLEAN :
       LET c == up[w]
           end == ChunkEnd(c.i, Len(c.rows))
           r == SendBatch(db, c.op, SubSeq(c.rows, c.i + 1, end), avail)
       IN /\ db' = r.db
          /\ updatedAt' =
               IF r.err # "none" THEN updatedAt
               ELSE [updatedAt EXCEPT ![TableOf(c.op)] =
                       Refresh(@, TableOf(c.op),
                               Queue(c.op, SubSeq(c.rows, c.i + 1, end)), NOW)]
          /\ up' = [up EXCEPT ![w] =
                      [c EXCEPT !.i = c.i + dbBatchSize,
                                !.totalCount = c.totalCount + r.count,
                                !.lastErr = IF r.err # "none" THEN r.err ELSE c.lastErr]]
          /\ chunkLog' = [chunkLog EXCEPT ![w] =
                            Append(@, [lo |-> c.i, hi |-> end,
                                       count |-> r.count, err |-> r.err])]
  /\ UNCHANGED ucalls

\* UpsertFinancialMetrics, UpsertDailyPrices: the loop is over
UpsertReturn(w) ==
  /\ up[w].st = "running"
  /\ Chunked(up[w].op)
  /\ up[w].i >= Len(up[w].rows)
  /\ up' = [up EXCEPT ![w] =
              [up[w] EXCEPT !.st = "returned",
                            !.ret = UpsertResult(up[w].totalCount, up[w].lastErr)]]
  /\ UNCHANGED <<db, chunkLog, ucalls, updatedAt>>

\* UpsertCompanies, UpsertBenchmarkPrices: one batch with every row, and return
UpsertWhole(w) ==
  /\ up[w].st = "running"
  /\ ~Chunked(up[w].op)
  /\ \E avail \in BOOLEAN :
       LET c == up[w]
           r == SendBatch(db, c.op, c.rows, avail)
       IN /\ db' = r.db
          /\ updatedAt' =
               IF r.err # "none" THEN updatedAt
               ELSE [updatedAt EXCEPT ![TableOf(c.op)] =
                       Refresh(@, TableOf(c.op), Queue(c.op, c.rows), NOW)]
          /\ up' = [up EXCEPT ![w] =
                      [c EXCEPT !.st = "returned",
                                !.totalCount = r.count,
                                !.lastErr = r.err,
                                !.ret = [count |-> r.count, err |-> r.err]]]
          /\ chunkLog' = [chunkLog EXCEPT ![w] =
                            Append(@, [lo |-> 0, hi |-> Len(c.rows),
                                       count |-> r.count, err |-> r.err])]
  /\ UNCHANGED ucalls

(***************************************************************************)
(* The rows the upserts are called with.                                   *)
(***************************************************************************)
Day1 == [y |-> 2024, m |-> 1, d |-> 2]
Day0 == [y |-> 2023, m |-> 12, d |-> 31]

One == Ptr(NewFromInt(1))
\* 2 * 10^16: above the limit of every scale
Huge == Ptr(Dec(FALSE, 2, 16))
\* 10^16 and 10^12: exactly the limits of scale 2 and of scale 6
AtLimit2 == Ptr(Dec(FALSE, 1, 16))
AtLimit6 == Ptr(Dec(FALSE, 1, 12))
\* -3 * 10^14: above the limit of scale 4 in magnitude, below that of scale 2
Minus3e14 == Ptr(Dec(TRUE, 3, 14))

NewTickerRow(t, name, delisted) ==
  [Ticker |-> t, Name |-> name, Exchange |-> "", Sector |-> "", Industry |-> "",
   ScaleRevenue |-> "", IsDelisted |-> delisted, LastUpdated |-> Nil]

NewSF1Row(t, dim, dateKey, rp, revenue, pe, price) ==
  [Ticker |-> t, Dimension |-> dim, CalendarDate |-> dateKey, DateKey |-> dateKey,
   LastUpdated |-> Ptr(dateKey),
   Revenue |-> revenue, NetIncome |-> Nil, EBITDA |-> Nil, FCF |-> Nil,
   ROIC |-> Nil, PE |-> pe, EVEBIT |-> Nil, PB |-> Nil, DE |-> Nil,
   MarketCap |-> Nil, EV |-> Nil, Price |-> price, ReportPeriod |-> rp]

NewDailyRow(t, date, open, closeUnadj, marketCap, pe) ==
  [Ticker |-> t, Date |-> date, Open |-> open, High |-> Nil, Low |-> Nil,
   Close |-> Nil, Volume |-> Nil, Dividends |-> Nil, CloseUnadj |-> closeUnadj,
   MarketCap |-> marketCap, EV |-> Nil, PE |-> pe, PB |-> Nil,
   LastUpdated |-> Ptr(date)]

Apple == NewTickerRow("AAPL", "Apple", FALSE)
AppleInc == NewTickerRow("AAPL", "Apple Inc", TRUE)
Zed == NewTickerRow("ZZZ", "Zed", FALSE)

\* fundamentals: no report period; the same key with other values, some out of
\* range; another dimension; an unknown ticker; a value exactly on its limit
M1 == NewSF1Row("AAPL", "ARQ", Day1, Nil, One, One, One)
M2 == NewSF1Row("AAPL", "ARQ", Day1, Ptr(Day0), Huge, Minus3e14, Huge)
M3 == NewSF1Row("AAPL", "MRQ", Day1, Ptr(Day1), Minus3e14, Nil, One)
MZ == NewSF1Row("ZZZ", "ARQ", Day1, Nil, One, Nil, Nil)
ML == NewSF1Row("AAPL", "ARQ", Day0, Nil, AtLimit2, Nil, AtLimit6)
\* the key of M1 again, as the source dated it earlier, and with no lastupdated
M1Earlier == [M1 EXCEPT !.LastUpdated = Ptr(Day0)]
M1Undated == [M1 EXCEPT !.LastUpdated = Nil]

\* daily prices: in range; the same key with out-of-range ratios; another date;
\* an unknown ticker; an open price beyond its column
D1 == NewDailyRow("AAPL", Day1, One, One, One, One)
D2 == NewDailyRow("AAPL", Day1, Nil, One, Huge, Minus3e14)
D3 == NewDailyRow("AAPL", Day0, One, Nil, One, Nil)
DZ == NewDailyRow("ZZZ", Day1, One, Nil, Nil, Nil)
DOver == NewDailyRow("AAPL", Day0, Huge, Nil, Nil, Nil)

\* benchmark prices
B1 == NewDailyRow("SPY", Day1, One, One, Nil, Nil)
B2 == NewDailyRow("SPY", Day1, Nil, One, Nil, Nil)
BO == NewDailyRow("SPY", Day0, Huge, Nil, Nil, Nil)
B0 == NewDailyRow("SPY", Day0, One, Nil, Nil, Nil)

\* the inputs of the calls with few rows
Inputs(op) ==
  CASE op = "UpsertCompanies" ->
         {<<>>, <<Zed>>, <<AppleInc>>, <<Apple, Zed, AppleInc>>}
    [] op = "UpsertFinancialMetrics" ->
         {<<>>, <<M1>>, <<M2>>, <<M1, M2>>, <<M2, M3, M1>>, <<M1, MZ, M3>>,
          <<MZ>>, <<M3, ML>>, <<M1Earlier>>, <<M1Undated>>}
    [] op = "UpsertDailyPrices" ->
         {<<>>, <<D1>>, <<D2, D3>>, <<D1, D2>>, <<D1, DZ, D3>>, <<DZ>>, <<D1, DOver>>}
    [] op = "UpsertBenchmarkPrices" ->
         {<<>>, <<B1>>, <<B1, B2>>, <<B1, D1, B2>>, <<B2, BO>>}

\* the inputs that span chunks: n rows, alternating between two rows, with
\* the rows at the positions of bad replaced by a row the store rejects
LongLengths == {1, 999, 1000, 1001, 2000, 2001}
BadPositions == {{}, {1}, {2}, {1001}, {1002}, {1, 1001}, {2, 1002, 2001}, {1, 1001, 2001}}

LongInput(n, bad, even, odd, rejected) ==
  [j \in 1..n |-> IF j \in bad THEN rejected ELSE IF j % 2 = 0 THEN even ELSE odd]

LongRows(op, n, bad) ==
  CASE op = "UpsertCompanies" -> LongInput(n, bad, Apple, Zed, AppleInc)
    [] op = "UpsertFinancialMetrics" -> LongInput(n, bad, M1, M3, MZ)
    [] op = "UpsertDailyPrices" -> LongInput(n, bad, D1, D3, DZ)
    [] op = "UpsertBenchmarkPrices" -> LongInput(n, bad, B1, B2, D1)

LongInputs(op) ==
  UNION { { LongRows(op, n, bad) : bad \in {b \in BadPositions : \A j \in b : j <= n} }
          : n \in LongLengths }

\* the store before the run: one company, nothing else
InitialDB ==
  [companies |-> {CompanyStmt(Apple)}, financial_metrics |-> {},
   daily_prices |-> {}, benchmark_prices |-> {}]

\* no upsert is running
RepoIdle ==
  /\ db = InitialDB
  /\ up = [w \in Workers |-> IdleCall]
  /\ chunkLog = [w \in Workers |-> <<>>]
  /\ ucalls = 0
  /\ updatedAt = Stamps(db, 0)

(***************************************************************************)
(* The streaming ingestion handlers (internal/handlers):                   *)
(* IngestHandler.IngestFundamentals and IngestHandler.IngestDaily.         *)
(*                                                                         *)
(* A handler reads the items of a stream and hands each non-empty batch    *)
(* to a goroutine that calls the repository; a semaphore of 3 slots bounds *)
(* the goroutines at work.  Client.FetchSF1Stream and                      *)
(* Client.FetchDailyStream are not part of the sources at hand: the        *)
(* stream is modelled from the specification, as a closed sequence of      *)
(* items {rows, error} whose rows are rows of the source for the tickers   *)
(* (and the dimension) requested.  A ticker filter is the set of its       *)
(* tickers.                                                                *)
(***************************************************************************)
\* sem := make(chan struct{}, 3); const maxDBParallel = 3
maxDBParallel == 3
\* a stream delivers at most MaxItems items
MaxItems == 2

NoError == "none"
ErrorItem == [Rows |-> <<>>, Error |-> "fetch failed"]
Batch(rs) == [Rows |-> rs, Error |-> NoError]

\* the ticker query parameter: absent, or a list of tickers
TickerParams == {Nil, Ptr({"AAPL"}), Ptr({"ZZZ"}), Ptr({"AAPL", "ZZZ"})}
\* the dimension query parameter after strings.Split (absent: "ARQ,MRQ")
DimensionParams == {<<"ARQ", "MRQ">>, <<"MRQ">>, <<"ARQ", "">>}

\* the batches of rows the source holds
SourceBatches(endpoint) ==
  IF endpoint = "fundamentals"
    THEN {<<>>, <<M1, M2>>, <<M3>>, <<M1, MZ>>}
    ELSE {<<>>, <<D1>>, <<D2, D3>>, <<D1, DZ, D3>>}

\* the timestamp '1970-01-01'; a time is its calendar day
Epoch == [y |-> 1970, m |-> 1, d |-> 1]
IsZero(t) == t = ZeroTime
\* since.Format("2006-01-02"): the text yyyy-mm-dd, as its three numbers
Format(t) == <<t.y, t.m, t.d>>
\* the order of the texts yyyy-mm-dd
DayNumber(text) == text[1] * 10000 + text[2] * 100 + text[3]

\* FetchSF1: params (ticker, dimension, lastupdated.gte when since is not zero;
\* no date.gte)
SF1Params(tickers, dimension, since) ==
  [ticker |-> tickers, dimension |-> dimension, date_gte |-> Nil,
   lastupdated_gte |-> IF ~IsZero(since) THEN Ptr(Format(since)) ELSE Nil]
\* FetchDaily: params (ticker, lastupdated.gte when since is not zero; no
\* date.gte)
DailyParams(tickers, since) ==
  [ticker |-> tickers, dimension |-> "", date_gte |-> Nil,
   lastupdated_gte |-> IF ~IsZero(since) THEN Ptr(Format(since)) ELSE Nil]

\* the rows are those of a request with the params: of its tickers, of its
\* dimension, and updated at or after its lower bound
Requested(endpoint, rs, params) ==
  \A j \in 1..Len(rs) :
     /\ rs[j].Ticker \in params.ticker
     /\ endpoint = "fundamentals" => rs[j].Dimension = params.dimension
     /\ params.lastupdated_gte # Nil =>
          /\ rs[j].LastUpdated # Nil
          /\ DayNumber(Format(Deref(rs[j].LastUpdated)))
                >= DayNumber(Deref(params.lastupdated_gte))
     /\ params.date_gte # Nil =>
          DayNumber(Format(IF endpoint = "fundamentals" THEN rs[j].DateKey ELSE rs[j].Date))
             >= DayNumber(Deref(params.date_gte))

\* streams of at most MaxItems items of any kind
Feeds(endpoint) ==
  SeqsUpTo({ErrorItem} \cup {Batch(rs) : rs \in SourceBatches(endpoint)}, MaxItems)

\* a stream delivers at most MaxBurst items in a burst
MaxBurst == 4
\* streams of at most MaxBurst items: one-row batches and errors
Bursts(endpoint) ==
  SeqsUpTo({ErrorItem, Batch(IF endpoint = "fundamentals" THEN <<M1>> ELSE <<D1>>)},
           MaxBurst)

\* the streams of feeds a fetch may deliver: the rows of every item are rows
\* requested
Streams(feeds, endpoint, params) ==
  { s \in feeds : \A j \in 1..Len(s) : Requested(endpoint, s[j].Rows, params) }

\* GetAllTickers: SELECT ticker FROM companies WHERE active = true
GetAllTickers(d) == {c.ticker : c \in {x \in d.companies : x.active}}
\* GetCompanyCount: SELECT COUNT(*) FROM companies
GetCompanyCount(d) == Cardinality(d.companies)
\* CompanyExists: SELECT EXISTS(SELECT 1 FROM companies WHERE ticker = $1)
CompanyExists(d, ticker) == \E c \in d.companies : c.ticker = ticker

\* the latest of a set of times
Latest(ts) ==
  CHOOSE t \in ts : \A u \in ts : DayNumber(Format(u)) <= DayNumber(Format(t))

\* MAX over no row at all is NULL, which Scan turns into the zero time
Watermark_NoCoalesce(ts) == IF ts = {} THEN ZeroTime ELSE Latest(ts)

\* COALESCE(MAX(...), '1970-01-01')
Watermark(ts) == IF ts = {} THEN Epoch ELSE Latest(ts)

\* GetLastSharadarUpdate: MAX(last_updated) of financial_metrics, MAX(date) of
\* daily_prices; avail: the query goes through
GetLastSharadarUpdate(d, table, avail) ==
  IF table \notin {"financial_metrics", "daily_prices"}
    THEN [time |-> ZeroTime, err |-> "unknown table"]
  ELSE IF ~avail THEN [time |-> ZeroTime, err |-> "query"]
  ELSE IF table = "financial_metrics"
    THEN [time |-> Watermark({Deref(r.last_updated) :
                                r \in {x \in d.financial_metrics : x.last_updated # Nil}}),
          err |-> "none"]
    ELSE [time |-> Watermark({r.date : r \in d.daily_prices}), err |-> "none"]

HandlerIdle ==
  [pc |-> "idle", endpoint |-> "none", tickers |-> {}, fetchAllFromDB |-> FALSE,
   dims |-> <<>>, dimension |-> "", fullFetch |-> FALSE, since |-> ZeroTime,
   sinceErr |-> "none", request |-> Nil, fetchErr |-> NoError, batch |-> <<>>,
   pending |-> <<>>, response |-> Nil]

\* c.JSON(status, IngestResponse{Success, Count})
Respond(status, success, count) ==
  h' = [h EXCEPT !.pc = "done",
                 !.response = Ptr([status |-> status, success |-> success,
                                   count |-> count])]

\* IngestFundamentals lines 111-147: the ticker filter, of the parameter or of
\* GetAllTickers, and the dimensions
FundamentalsStart(param, dimParam, full) ==
  /\ h.pc = "idle"
  /\ \E avail \in BOOLEAN :
       LET tickerFilter == IF param # Nil THEN Deref(param) ELSE GetAllTickers(db)
       IN IF param = Nil /\ ~avail
            THEN Respond(500, FALSE, 0)
            ELSE IF tickerFilter = {}
              THEN Respond(400, FALSE, 0)
              ELSE h' = [h EXCEPT !.pc = "count", !.endpoint = "fundamentals",
                                  !.tickers = tickerFilter, !.dims = dimParam,
                                  !.fullFetch = full]
  /\ UNCHANGED <<stream, sem, totalCount, gst, writeLog>>
  /\ UNCHANGED repoVars

\* lines 152-166: companyCount, err := h.repo.GetCompanyCount(ctx)
FundamentalsCount ==
  /\ h.pc = "count"
  /\ \E avail \in BOOLEAN :
       IF ~avail
         THEN Respond(500, FALSE, 0)
         ELSE IF GetCompanyCount(db) = 0
           THEN Respond(400, FALSE, 0)
           ELSE h' = [h EXCEPT !.pc = "dimension"]
  /\ UNCHANGED <<stream, sem, totalCount, gst, writeLog>>
  /\ UNCHANGED repoVars

\* var since time.Time; if !fullFetch { since, _ = GetLastSharadarUpdate(ctx, table) }:
\* the time is kept, the error is dropped
Since(d, table, fullFetch, avail) ==
  IF fullFetch THEN [time |-> ZeroTime, err |-> "none"]
  ELSE GetLastSharadarUpdate(d, table, avail)

\* lines 170-181 and 229-238: the next dimension and its since date; after the
\* last dimension the handler returns the total
FundamentalsDimension ==
  /\ h.pc = "dimension"
  /\ IF h.dims = <<>>
       THEN Respond(200, TRUE, totalCount)
       ELSE IF Head(h.dims) = ""
         THEN h' = [h EXCEPT !.dims = Tail(h.dims)]
         ELSE \E avail \in BOOLEAN :
                h' = [h EXCEPT !.pc = "fetch", !.dims = Tail(h.dims),
                               !.dimension = Head(h.dims), !.fetchErr = NoError,
                               !.request = Nil,
                               !.since = Since(db, "financial_metrics",
                                               h.fullFetch, avail).time,
                               !.sinceErr = Since(db, "financial_metrics",
                                                  h.fullFetch, avail).err]
  /\ UNCHANGED <<stream, sem, totalCount, gst, writeLog>>
  /\ UNCHANGED repoVars

\* line 185: batchCh := h.client.FetchSF1Stream(ctx, tickerFilter, dimension, since, 5);
\* the stream is one of feeds that the request may deliver
FundamentalsFetch(feeds) ==
  /\ h.pc = "fetch"
  /\ h.endpoint = "fundamentals"
  /\ LET params == SF1Params(h.tickers, h.dimension, h.since)
     IN /\ stream' \in Streams(feeds, "fundamentals", params)
        /\ h' = [h EXCEPT !.pc = "receive", !.request = Ptr(params)]
  /\ UNCHANGED <<sem, totalCount, gst, writeLog>>
  /\ UNCHANGED repoVars

\* lines 191-200: for batch := range batchCh
FundamentalsReceive ==
  /\ h.pc = "receive"
  /\ h.endpoint = "fundamentals"
  /\ IF stream = <<>>
       THEN /\ h' = [h EXCEPT !.pc = "join"]
            /\ UNCHANGED stream
       ELSE /\ stream' = Tail(stream)
            /\ IF Head(stream).Error # NoError
                 THEN h' = [h EXCEPT !.pc = "join", !.fetchErr = Head(stream).Error]
                 ELSE IF Len(Head(stream).Rows) = 0
                   THEN UNCHANGED h
                   ELSE h' = [h EXCEPT !.pc = "acquire", !.pending = Head(stream).Rows]
  /\ UNCHANGED <<sem, totalCount, gst, writeLog>>
  /\ UNCHANGED repoVars

\* a wait that returns at once
WaitGroupDone_NoWait(st) == TRUE

\* wg.Wait() returns when every goroutine added has called wg.Done()
WaitGroupDone(st) == \A g \in Goroutines : st[g] = "free"

\* lines 219-226: wg.Wait(), then the fetch error of the dimension, if any
FundamentalsJoin ==
  /\ h.pc = "join"
  /\ h.endpoint = "fundamentals"
  /\ WaitGroupDone(gst)
  /\ IF h.fetchErr # NoError
       THEN Respond(500, FALSE, 0)
       ELSE h' = [h EXCEPT !.pc = "dimension"]
  /\ UNCHANGED <<stream, sem, totalCount, gst, writeLog>>
  /\ UNCHANGED repoVars

\* IngestDaily lines 253-284: the ticker filter, of the parameter or of
\* GetAllTickers
DailyStart(param, full) ==
  /\ h.pc = "idle"
  /\ \E avail \in BOOLEAN :
       LET tickers == IF param # Nil THEN Deref(param) ELSE GetAllTickers(db)
       IN IF param = Nil /\ ~avail
            THEN Respond(500, FALSE, 0)
            ELSE IF tickers = {}
              THEN Respond(400, FALSE, 0)
              ELSE h' = [h EXCEPT !.pc = "since", !.endpoint = "daily",
                                  !.tickers = tickers,
                                  !.fetchAllFromDB = (param = Nil),
                                  !.fullFetch = full]
  /\ UNCHANGED <<stream, sem, totalCount, gst, writeLog>>
  /\ UNCHANGED repoVars

\* lines 289-294: the since date
DailySince ==
  /\ h.pc = "since"
  /\ h.endpoint = "daily"
  /\ \E avail \in BOOLEAN :
       h' = [h EXCEPT !.pc = "fetch",
                      !.since = Since(db, "daily_prices", h.fullFetch, avail).time,
                      !.sinceErr = Since(db, "daily_prices", h.fullFetch, avail).err]
  /\ UNCHANGED <<stream, sem, totalCount, gst, writeLog>>
  /\ UNCHANGED repoVars

\* line 300: batchCh := h.client.FetchDailyStream(ctx, tickers, since, maxAPIParallel);
\* the stream is one of feeds that the request may deliver
DailyFetch(feeds) ==
  /\ h.pc = "fetch"
  /\ h.endpoint = "daily"
  /\ LET params == DailyParams(h.tickers, h.since)
     IN /\ stream' \in Streams(feeds, "daily", params)
        /\ h' = [h EXCEPT !.pc = "receive", !.request = Ptr(params)]
  /\ UNCHANGED <<sem, totalCount, gst, writeLog>>
  /\ UNCHANGED repoVars

\* lines 307-320: for batch := range batchCh; with an explicit filter the
\* rows go through the existence check, else they are the rows to upsert
DailyReceive ==
  /\ h.pc = "receive"
  /\ h.endpoint = "daily"
  /\ IF stream = <<>>
       THEN /\ h' = [h EXCEPT !.pc = "join"]
            /\ UNCHANGED stream
       ELSE /\ stream' = Tail(stream)
            /\ IF Head(stream).Error # NoError
                 THEN h' = [h EXCEPT !.fetchErr = Head(stream).Error]
                 ELSE IF Len(Head(stream).Rows) = 0
                   THEN UNCHANGED h
                   ELSE IF h.fetchAllFromDB
                     THEN h' = [h EXCEPT !.pc = "acquire",
                                         !.pending = Head(stream).Rows]
                     ELSE h' = [h EXCEPT !.pc = "filter",
                                         !.batch = Head(stream).Rows,
                                         !.pending = <<>>]
  /\ UNCHANGED <<sem, totalCount, gst, writeLog>>
  /\ UNCHANGED repoVars

\* lines 323-326: exists, err := h.repo.CompanyExists(ctx, row.Ticker);
\* if err == nil && exists { validRows = append(validRows, row) }
AppendValid(validRows, d, row, avail) ==
  IF avail /\ CompanyExists(d, row.Ticker) THEN Append(validRows, row) ELSE validRows

\* lines 322-333: one round of the loop over batch.Rows, one query; after the
\* last row the batch goes on to the upsert unless no row is left
DailyExists ==
  /\ h.pc = "filter"
  /\ \E avail \in BOOLEAN :
       LET validRows == AppendValid(h.pending, db, Head(h.batch), avail)
           rest == Tail(h.batch)
       IN h' = [h EXCEPT !.batch = rest,
                         !.pending = validRows,
                         !.pc = IF rest # <<>> THEN "filter"
                                ELSE IF Len(validRows) = 0 THEN "receive"
                                ELSE "acquire"]
  /\ UNCHANGED <<stream, sem, totalCount, gst, writeLog>>
  /\ UNCHANGED repoVars

\* lines 351-370: wg.Wait(), then the result
DailyJoin ==
  /\ h.pc = "join"
  /\ h.endpoint = "daily"
  /\ WaitGroupDone(gst)
  /\ IF h.fetchErr # NoError /\ totalCount = 0
       THEN Respond(500, FALSE, 0)
       ELSE Respond(200, TRUE, totalCount)
  /\ UNCHANGED <<stream, sem, totalCount, gst, writeLog>>
  /\ UNCHANGED repoVars

\* the upsert operation of the endpoint
UpsertOf(endpoint) ==
  IF endpoint = "fundamentals" THEN "UpsertFinancialMetrics" ELSE "UpsertDailyPrices"

\* the goroutine a go statement starts: the first that is not at work
NewGoroutine(st) ==
  LET free == {k \in 1..Len(GoroutineOrder) : st[GoroutineOrder[k]] = "free"}
  IN GoroutineOrder[CHOOSE k \in free : \A k2 \in free : k <= k2]

\* a send on the channel that never blocks
CanSend_Always(n) == TRUE

\* sem <- struct{}{} goes through while the channel holds fewer than its capacity
CanSend(n) == n < maxDBParallel

\* sem <- struct{}{}; wg.Add(1); go func(rows) { ... }(batch.Rows): a slot is
\* taken and goroutine g starts on the rows
Dispatch(g) ==
  /\ h.pc = "acquire"
  /\ CanSend(sem)
  /\ gst[g] = "free"
  /\ g = NewGoroutine(gst)
  /\ sem' = sem + 1
  /\ gst' = [gst EXCEPT ![g] = "upsert"]
  /\ BeginUpsert(g, UpsertOf(h.endpoint), h.pending)
  /\ UNCHANGED ucalls
  /\ h' = [h EXCEPT !.pc = "receive", !.pending = <<>>]
  /\ writeLog' = [writeLog EXCEPT !.dispatched = @ + 1, !.sent = @ \cup {h.pending}]
  /\ UNCHANGED <<stream, totalCount>>

\* the upsert call of goroutine g returns to it: count, err := h.repo.Upsert...
UpsertReturned(g) ==
  /\ gst[g] = "upsert"
  /\ UpsertReturn(g)
  /\ writeLog' = [writeLog EXCEPT
                    !.rowsWritten = @ + up'[g].ret.count,
                    !.failed = @ + (IF up'[g].ret.err # "none" THEN 1 ELSE 0)]
  /\ UNCHANGED <<h, stream, sem, totalCount, gst>>

\* a store in place of the add
Add_Store(counter, n) == n

\* atomic.Int64.Add
Add(counter, n) == counter + n

\* a goroutine that gives its slot back only after an upsert without error
WorkerDone_KeepsSlotOnError(g) ==
  /\ gst[g] = "upsert"
  /\ up[g].st = "returned"
  /\ totalCount' = Add(totalCount, up[g].ret.count)
  /\ sem' = IF up[g].ret.err # "none" THEN sem ELSE sem - 1
  /\ gst' = [gst EXCEPT ![g] = "free"]
  /\ UNCHANGED <<h, stream, writeLog>>
  /\ UNCHANGED repoVars

\* the goroutine after its upsert returned: totalCount.Add(int64(count)), then
\* the deferred <-sem and wg.Done()
WorkerDone(g) ==
  /\ gst[g] = "upsert"
  /\ up[g].st = "returned"
  /\ totalCount' = Add(totalCount, up[g].ret.count)
  /\ sem' = sem - 1
  /\ gst' = [gst EXCEPT ![g] = "free"]
  /\ UNCHANGED <<h, stream, writeLog>>
  /\ UNCHANGED repoVars

(***************************************************************************)
(* IngestHandler.IngestBenchmarks: one blocking fetch, one upsert.         *)
(***************************************************************************)
\* GetBenchmarkTickers: SELECT ticker FROM benchmarks ORDER BY ticker
GetBenchmarkTickers(d) == benchmarks

\* GetLastBenchmarkUpdate: COALESCE(MAX(date), '1970-01-01') of benchmark_prices
GetLastBenchmarkUpdate(d, avail) ==
  IF ~avail THEN [time |-> ZeroTime, err |-> "query"]
  ELSE [time |-> Watermark({r.date : r \in d.benchmark_prices}), err |-> "none"]

\* what a blocking fetch may return: an error, or the rows of all its pages
FetchResults ==
  {[rows |-> <<>>, err |-> "fetch failed"]} \cup
  {[rows |-> rs, err |-> NoError] : rs \in {<<>>, <<B1>>, <<B0>>, <<B1, B2>>, <<B2, BO>>}}

\* Client.FetchDaily(ctx, tickers, since): an error without tickers; else the
\* outcome of FetchTable("SHARADAR/DAILY", params) and ParseDaily
FetchDaily(results, tickers, since) ==
  IF tickers = {} THEN {[rows |-> <<>>, err |-> "at least one ticker required"]}
  ELSE { r \in results :
           r.err # NoError \/ Requested("daily", r.rows, DailyParams(tickers, since)) }

\* the goroutine of the request, which calls UpsertBenchmarkPrices itself
Self == "u1"

\* IngestBenchmarks lines 384-404: the benchmark tickers
BenchmarksStart(full) ==
  /\ h.pc = "idle"
  /\ \E avail \in BOOLEAN :
       LET tickers == GetBenchmarkTickers(db)
       IN IF ~avail
            THEN Respond(500, FALSE, 0)
            ELSE IF tickers = {}
              THEN Respond(400, FALSE, 0)
              ELSE h' = [h EXCEPT !.pc = "since", !.endpoint = "benchmarks",
                                  !.tickers = tickers, !.fullFetch = full]
  /\ UNCHANGED <<stream, sem, totalCount, gst, writeLog>>
  /\ UNCHANGED repoVars

\* lines 408-413: the since date
BenchmarksSince ==
  /\ h.pc = "since"
  /\ h.endpoint = "benchmarks"
  /\ \E avail \in BOOLEAN :
       h' = [h EXCEPT !.pc = "fetch",
                      !.since = IF h.fullFetch THEN ZeroTime
                                ELSE GetLastBenchmarkUpdate(db, avail).time,
                      !.sinceErr = IF h.fullFetch THEN "none"
                                   ELSE GetLastBenchmarkUpdate(db, avail).err]
  /\ UNCHANGED <<stream, sem, totalCount, gst, writeLog>>
  /\ UNCHANGED repoVars

\* lines 415-427: rows, err := h.client.FetchDaily(ctx, tickers, since); on
\* success the call of UpsertBenchmarkPrices
BenchmarksFetch(results) ==
  /\ h.pc = "fetch"
  /\ h.endpoint = "benchmarks"
  /\ \E r \in FetchDaily(results, h.tickers, h.since) :
       IF r.err # NoError
         THEN /\ h' = [h EXCEPT !.pc = "done",
                                !.request = Ptr(DailyParams(h.tickers, h.since)),
                                !.fetchErr = r.err,
                                !.response = Ptr([status |-> 500, success |-> FALSE,
                                                  count |-> 0])]
              /\ UNCHANGED <<repoVars, writeLog>>
         ELSE /\ h' = [h EXCEPT !.pc = "upsert",
                                !.request = Ptr(DailyParams(h.tickers, h.since))]
              /\ BeginUpsert(Self, "UpsertBenchmarkPrices", r.rows)
              /\ writeLog' = [writeLog EXCEPT !.dispatched = @ + 1,
                                              !.sent = @ \cup {r.rows}]
              /\ UNCHANGED ucalls
  /\ UNCHANGED <<stream, sem, totalCount, gst>>

\* lines 427-445: count, err := UpsertBenchmarkPrices(...) has returned
BenchmarksRespond ==
  /\ h.pc = "upsert"
  /\ up[Self].st = "returned"
  /\ IF up[Self].ret.err # "none"
       THEN Respond(500, FALSE, 0)
       ELSE Respond(200, TRUE, up[Self].ret.count)
  /\ writeLog' = [writeLog EXCEPT
                    !.rowsWritten = @ + up[Self].ret.count,
                    !.failed = @ + (IF up[Self].ret.err # "none" THEN 1 ELSE 0)]
  /\ UNCHANGED <<stream, sem, totalCount, gst>>
  /\ UNCHANGED repoVars

(***************************************************************************)
(* IngestHandler.IngestTickers: one blocking fetch, one upsert of the      *)
(* companies; the request runs beside the other handlers.                  *)
(***************************************************************************)
\* the ticker query parameter of IngestTickers
TickerFilters == {Nil, Ptr({"AAPL", "ZZZ"})}

\* what SHARADAR/TICKERS may return: an error, or the rows parsed
TickerResults ==
  {[rows |-> <<>>, err |-> "fetch failed"]} \cup
  {[rows |-> rs, err |-> NoError] : rs \in {<<AppleInc, Zed>>}}

\* Client.FetchTickers(ctx, tickers): the outcome of
\* FetchTable("SHARADAR/TICKERS", params) and ParseTickers; without a filter
\* every ticker
FetchTickers(results, tickerFilter) ==
  { r \in results :
      \/ r.err # NoError
      \/ tickerFilter = Nil
      \/ \A j \in 1..Len(r.rows) : r.rows[j].Ticker \in Deref(tickerFilter) }

\* the goroutine of the request, which calls UpsertCompanies itself
TickersSelf == "u2"

TickersIdle == [pc |-> "idle", response |-> Nil]

\* IngestTickers lines 49-77: tickers, err := h.client.FetchTickers(ctx,
\* tickerFilter); on success the call of UpsertCompanies
TickersFetch(results, tickerFilter) ==
  /\ tk.pc = "idle"
  /\ \E r \in FetchTickers(results, tickerFilter) :
       IF r.err # NoError
         THEN /\ tk' = [pc |-> "done",
                        response |-> Ptr([status |-> 500, success |-> FALSE,
                                          count |-> 0])]
              /\ UNCHANGED repoVars
         ELSE /\ tk' = [tk EXCEPT !.pc = "upsert"]
              /\ BeginUpsert(TickersSelf, "UpsertCompanies", r.rows)
              /\ UNCHANGED ucalls
  /\ UNCHANGED ingestVars

\* lines 77-95: count, err := h.repo.UpsertCompanies(ctx, tickers) has returned
TickersRespond ==
  /\ tk.pc = "upsert"
  /\ up[TickersSelf].st = "returned"
  /\ tk' = [pc |-> "done",
            response |-> IF up[TickersSelf].ret.err # "none"
                           THEN Ptr([status |-> 500, success |-> FALSE, count |-> 0])
                           ELSE Ptr([status |-> 200, success |-> TRUE,
                                     count |-> up[TickersSelf].ret.count])]
  /\ UNCHANGED <<repoVars, ingestVars>>

\* no handler is running
IngestIdle ==
  /\ h = HandlerIdle
  /\ stream = <<>>
  /\ sem = 0
  /\ totalCount = 0
  /\ gst = [g \in Goroutines |-> "free"]
  /\ writeLog = [dispatched |-> 0, failed |-> 0, rowsWritten |-> 0, run |-> 0,
                 sent |-> {}]
  /\ tk = TickersIdle

(***************************************************************************)
(* Initial states.                                                         *)
(***************************************************************************)
LimiterInit ==
  /\ mu = Nil
  /\ sinceLastCall = interval
  /\ wpc = [p \in Procs |-> "idle"]
  /\ wsleep = [p \in Procs |-> 0]
  /\ calls = 0
  /\ version = 0
  /\ reads = <<>>
  /\ sinceReturn = interval

FetchInit(start) ==
  /\ pc = start
  /\ ctxDone = FALSE
  /\ allData = EmptyResponse
  /\ cursorID = Nil
  /\ reqCursor = Nil
  /\ resp = Nil
  /\ attempt = 0
  /\ lastErr = "none"
  /\ sleepLeft = 0
  /\ result = [resp |-> Nil, err |-> "none"]
  /\ pageRequests = 0
  /\ pagesServed = 0
  /\ servedRows = 0
  /\ firstColumns = Nil
  /\ lastNext = Nil
  /\ attempts = 0
  /\ failures = 0
  /\ sinceAttempt = interval

\* no parser is running
ParseIdle ==
  /\ presp = [Columns |-> <<>>, Data |-> <<>>]
  /\ parsed = "none"
  /\ rows = <<>>

\* one call of Client.FetchTable on a fresh client
Init ==
  /\ LimiterInit
  /\ tableOK \in BOOLEAN
  /\ FetchInit("call")
  /\ ParseIdle
  /\ RepoIdle
  /\ IngestIdle

Next ==
  \/ BuildRequest /\ UNCHANGED <<parseVars, tickVars, repoVars, ingestVars>>
  \/ FetchWaitEnter /\ UNCHANGED <<parseVars, tickVars, repoVars, ingestVars>>
  \/ FetchWaitLeave /\ UNCHANGED <<parseVars, tickVars, repoVars, ingestVars>>
  \/ LoopHead /\ UNCHANGED <<parseVars, tickVars, repoVars, ingestVars>>
  \/ StartRequest /\ UNCHANGED <<parseVars, tickVars, repoVars, ingestVars>>
  \/ RequestOK /\ UNCHANGED <<parseVars, tickVars, repoVars, ingestVars>>
  \/ RequestFails /\ UNCHANGED <<parseVars, tickVars, repoVars, ingestVars>>
  \/ AfterFailure /\ UNCHANGED <<parseVars, tickVars, repoVars, ingestVars>>
  \/ MergePage /\ UNCHANGED <<parseVars, tickVars, repoVars, ingestVars>>
  \/ Cancel /\ UNCHANGED <<parseVars, tickVars, repoVars, ingestVars>>
  \/ Tick

Spec == Init /\ [][Next]_vars

(***************************************************************************)
(* Concurrent callers of one rateLimiter.                                  *)
(***************************************************************************)
InitLimiter ==
  /\ LimiterInit
  /\ tableOK = TRUE
  /\ FetchInit("off")
  /\ ParseIdle
  /\ RepoIdle
  /\ IngestIdle

NextLimiter ==
  \/ \E p \in Callers : CallWait(p) /\ UNCHANGED <<fetchVars, histVars, parseVars, tickVars, repoVars, ingestVars>>
  \/ \E p \in Callers : WaitEnter(p) /\ UNCHANGED <<fetchVars, histVars, parseVars, tickVars, repoVars, ingestVars>>
  \/ \E p \in Callers : WaitLeave(p) /\ UNCHANGED <<fetchVars, histVars, parseVars, tickVars, repoVars, ingestVars>>
  \/ Tick

SpecLimiter == InitLimiter /\ [][NextLimiter]_vars

(***************************************************************************)
(* The parsers applied to every response within the bounds.                *)
(***************************************************************************)
InitParse ==
  /\ LimiterInit
  /\ tableOK = TRUE
  /\ FetchInit("off")
  /\ presp \in [Columns : ParseColumnLists, Data : SeqsUpTo(DataRows, MaxRows)]
  /\ parsed = "none"
  /\ rows = <<>>
  /\ RepoIdle
  /\ IngestIdle

NextParse ==
  \/ ParseTickers
  \/ ParseSF1
  \/ ParseDaily
  \/ ParseSP500

SpecParse == InitParse /\ [][NextParse]_vars

(***************************************************************************)
(* Concurrent calls of the upsert operations, with few rows each.          *)
(***************************************************************************)
InitRepo ==
  /\ LimiterInit
  /\ tableOK = TRUE
  /\ FetchInit("off")
  /\ ParseIdle
  /\ RepoIdle
  /\ IngestIdle

NextRepo ==
  \/ \E w \in Writers, op \in Ops : \E input \in Inputs(op) :
        UpsertCall(w, op, input) /\ UNCHANGED <<limVars, fetchVars, histVars, parseVars, tickVars, ingestVars>>
  \/ \E w \in Writers :
        UpsertChunk(w) /\ UNCHANGED <<limVars, fetchVars, histVars, parseVars, tickVars, ingestVars>>
  \/ \E w \in Writers :
        UpsertReturn(w) /\ UNCHANGED <<limVars, fetchVars, histVars, parseVars, tickVars, ingestVars>>
  \/ \E w \in Writers :
        UpsertWhole(w) /\ UNCHANGED <<limVars, fetchVars, histVars, parseVars, tickVars, ingestVars>>

SpecRepo == InitRepo /\ [][NextRepo]_vars

(***************************************************************************)
(* One call of an upsert operation with an input that spans chunks.        *)
(***************************************************************************)
NextChunks ==
  \/ \E op \in Ops : \E input \in LongInputs(op) :
        /\ ucalls = 0
        /\ UpsertCall("u1", op, input)
        /\ UNCHANGED <<limVars, fetchVars, histVars, parseVars, tickVars, ingestVars>>
  \/ UpsertChunk("u1") /\ UNCHANGED <<limVars, fetchVars, histVars, parseVars, tickVars, ingestVars>>
  \/ UpsertReturn("u1") /\ UNCHANGED <<limVars, fetchVars, histVars, parseVars, tickVars, ingestVars>>
  \/ UpsertWhole("u1") /\ UNCHANGED <<limVars, fetchVars, histVars, parseVars, tickVars, ingestVars>>

SpecChunks == InitRepo /\ [][NextChunks]_vars

(***************************************************************************)
(* One request of IngestFundamentals, IngestDaily or IngestBenchmarks, and *)
(* beside it one request of IngestTickers, which writes the companies      *)
(* while the other request is on its way.                                  *)
(***************************************************************************)
\* the companies table before the run: empty, or one active company; a run of
\* IngestTickers delists it and adds another
InitIngest ==
  /\ LimiterInit
  /\ tableOK = TRUE
  /\ FetchInit("off")
  /\ ParseIdle
  /\ db \in { [InitialDB EXCEPT !.companies = cs] :
                cs \in {{}, {CompanyStmt(Apple)}} }
  /\ up = [w \in Workers |-> IdleCall]
  /\ chunkLog = [w \in Workers |-> <<>>]
  /\ ucalls = 0
  /\ updatedAt = Stamps(db, 0)
  /\ IngestIdle

NextIngest ==
  \/ \E param \in TickerParams, dimParam \in DimensionParams, full \in BOOLEAN :
        FundamentalsStart(param, dimParam, full) /\ UNCHANGED <<limVars, fetchVars, histVars, parseVars, tickVars>>
  \/ FundamentalsCount /\ UNCHANGED <<limVars, fetchVars, histVars, parseVars, tickVars>>
  \/ FundamentalsDimension /\ UNCHANGED <<limVars, fetchVars, histVars, parseVars, tickVars>>
  \/ FundamentalsFetch(Feeds("fundamentals")) /\ UNCHANGED <<limVars, fetchVars, histVars, parseVars, tickVars>>
  \/ FundamentalsReceive /\ UNCHANGED <<limVars, fetchVars, histVars, parseVars, tickVars>>
  \/ FundamentalsJoin /\ UNCHANGED <<limVars, fetchVars, histVars, parseVars, tickVars>>
  \/ \E param \in TickerParams, full \in BOOLEAN :
        DailyStart(param, full) /\ UNCHANGED <<limVars, fetchVars, histVars, parseVars, tickVars>>
  \/ DailyFetch(Feeds("daily")) /\ UNCHANGED <<limVars, fetchVars, histVars, parseVars, tickVars>>
  \/ DailySince /\ UNCHANGED <<limVars, fetchVars, histVars, parseVars, tickVars>>
  \/ DailyReceive /\ UNCHANGED <<limVars, fetchVars, histVars, parseVars, tickVars>>
  \/ DailyExists /\ UNCHANGED <<limVars, fetchVars, histVars, parseVars, tickVars>>
  \/ DailyJoin /\ UNCHANGED <<limVars, fetchVars, histVars, parseVars, tickVars>>
  \/ \E g \in Goroutines :
        Dispatch(g) /\ UNCHANGED <<limVars, fetchVars, histVars, parseVars, tickVars>>
  \/ \E g \in Goroutines :
        UpsertChunk(g) /\ UNCHANGED <<limVars, fetchVars, histVars, parseVars, tickVars, ingestVars>>
  \/ \E g \in Goroutines :
        UpsertReturned(g) /\ UNCHANGED <<limVars, fetchVars, histVars, parseVars, tickVars>>
  \/ \E g \in Goroutines :
        WorkerDone(g) /\ UNCHANGED <<limVars, fetchVars, histVars, parseVars, tickVars>>
  \/ \E full \in BOOLEAN :
        BenchmarksStart(full) /\ UNCHANGED <<limVars, fetchVars, histVars, parseVars, tickVars>>
  \/ BenchmarksSince /\ UNCHANGED <<limVars, fetchVars, histVars, parseVars, tickVars>>
  \/ BenchmarksFetch(FetchResults) /\ UNCHANGED <<limVars, fetchVars, histVars, parseVars, tickVars>>
  \/ (h.pc = "upsert" /\ UpsertWhole(Self))
        /\ UNCHANGED <<limVars, fetchVars, histVars, parseVars, tickVars, ingestVars>>
  \/ BenchmarksRespond /\ UNCHANGED <<limVars, fetchVars, histVars, parseVars, tickVars>>
  \/ \E tickerFilter \in TickerFilters :
        TickersFetch(TickerResults, tickerFilter)
          /\ UNCHANGED <<limVars, fetchVars, histVars, parseVars>>
  \/ (tk.pc = "upsert" /\ UpsertWhole(TickersSelf))
        /\ UNCHANGED <<limVars, fetchVars, histVars, parseVars, ingestVars, tickVars>>
  \/ TickersRespond /\ UNCHANGED <<limVars, fetchVars, histVars, parseVars>>

SpecIngest == InitIngest /\ [][NextIngest]_vars

(***************************************************************************)
(* One run of a streaming ingestion handler on a burst of batches, enough  *)
(* of them to fill the write semaphore.                                    *)
(***************************************************************************)
InitBurst ==
  /\ LimiterInit
  /\ tableOK = TRUE
  /\ FetchInit("off")
  /\ ParseIdle
  /\ RepoIdle
  /\ IngestIdle

NextBurst ==
  \/ \E param \in TickerParams, dimParam \in DimensionParams, full \in BOOLEAN :
        FundamentalsStart(param, dimParam, full) /\ UNCHANGED <<limVars, fetchVars, histVars, parseVars, tickVars>>
  \/ FundamentalsCount /\ UNCHANGED <<limVars, fetchVars, histVars, parseVars, tickVars>>
  \/ FundamentalsDimension /\ UNCHANGED <<limVars, fetchVars, histVars, parseVars, tickVars>>
  \/ FundamentalsFetch(Bursts("fundamentals")) /\ UNCHANGED <<limVars, fetchVars, histVars, parseVars, tickVars>>
  \/ FundamentalsReceive /\ UNCHANGED <<limVars, fetchVars, histVars, parseVars, tickVars>>
  \/ FundamentalsJoin /\ UNCHANGED <<limVars, fetchVars, histVars, parseVars, tickVars>>
  \/ \E param \in TickerParams, full \in BOOLEAN :
        DailyStart(param, full) /\ UNCHANGED <<limVars, fetchVars, histVars, parseVars, tickVars>>
  \/ DailyFetch(Bursts("daily")) /\ UNCHANGED <<limVars, fetchVars, histVars, parseVars, tickVars>>
  \/ DailySince /\ UNCHANGED <<limVars, fetchVars, histVars, parseVars, tickVars>>
  \/ DailyReceive /\ UNCHANGED <<limVars, fetchVars, histVars, parseVars, tickVars>>
  \/ DailyExists /\ UNCHANGED <<limVars, fetchVars, histVars, parseVars, tickVars>>
  \/ DailyJoin /\ UNCHANGED <<limVars, fetchVars, histVars, parseVars, tickVars>>
  \/ \E g \in Goroutines :
        Dispatch(g) /\ UNCHANGED <<limVars, fetchVars, histVars, parseVars, tickVars>>
  \/ \E g \in Goroutines :
        UpsertChunk(g) /\ UNCHANGED <<limVars, fetchVars, histVars, parseVars, tickVars, ingestVars>>
  \/ \E g \in Goroutines :
        UpsertReturned(g) /\ UNCHANGED <<limVars, fetchVars, histVars, parseVars, tickVars>>
  \/ \E g \in Goroutines :
        WorkerDone(g) /\ UNCHANGED <<limVars, fetchVars, histVars, parseVars, tickVars>>

SpecBurst == InitBurst /\ [][NextBurst]_vars

\* the goroutines of the handler are scheduled: an upsert that can take a step
\* takes it, and a goroutine whose upsert returned runs to its end
BurstFairness ==
  \A g \in Goroutines :
     /\ WF_vars(UpsertChunk(g) /\ UNCHANGED <<limVars, fetchVars, histVars, parseVars, tickVars, ingestVars>>)
     /\ WF_vars(UpsertReturned(g) /\ UNCHANGED <<limVars, fetchVars, histVars, parseVars, tickVars>>)
     /\ WF_vars(WorkerDone(g) /\ UNCHANGED <<limVars, fetchVars, histVars, parseVars, tickVars>>)

\* the runs on a burst whose requests name no ticker and one dimension
NextSlots ==
  \/ FundamentalsStart(Nil, <<"ARQ">>, FALSE) /\ UNCHANGED <<limVars, fetchVars, histVars, parseVars, tickVars>>
  \/ FundamentalsCount /\ UNCHANGED <<limVars, fetchVars, histVars, parseVars, tickVars>>
  \/ FundamentalsDimension /\ UNCHANGED <<limVars, fetchVars, histVars, parseVars, tickVars>>
  \/ FundamentalsFetch(Bursts("fundamentals")) /\ UNCHANGED <<limVars, fetchVars, histVars, parseVars, tickVars>>
  \/ FundamentalsReceive /\ UNCHANGED <<limVars, fetchVars, histVars, parseVars, tickVars>>
  \/ FundamentalsJoin /\ UNCHANGED <<limVars, fetchVars, histVars, parseVars, tickVars>>
  \/ DailyStart(Nil, FALSE) /\ UNCHANGED <<limVars, fetchVars, histVars, parseVars, tickVars>>
  \/ DailyFetch(Bursts("daily")) /\ UNCHANGED <<limVars, fetchVars, histVars, parseVars, tickVars>>
  \/ DailySince /\ UNCHANGED <<limVars, fetchVars, histVars, parseVars, tickVars>>
  \/ DailyReceive /\ UNCHANGED <<limVars, fetchVars, histVars, parseVars, tickVars>>
  \/ DailyJoin /\ UNCHANGED <<limVars, fetchVars, histVars, parseVars, tickVars>>
  \/ \E g \in Goroutines :
        Dispatch(g) /\ UNCHANGED <<limVars, fetchVars, histVars, parseVars, tickVars>>
  \/ \E g \in Goroutines :
        UpsertChunk(g) /\ UNCHANGED <<limVars, fetchVars, histVars, parseVars, tickVars, ingestVars>>
  \/ \E g \in Goroutines :
        UpsertReturned(g) /\ UNCHANGED <<limVars, fetchVars, histVars, parseVars, tickVars>>
  \/ \E g \in Goroutines :
        WorkerDone(g) /\ UNCHANGED <<limVars, fetchVars, histVars, parseVars, tickVars>>

SpecSlots == InitBurst /\ [][NextSlots]_vars /\ BurstFairness

(***************************************************************************)
(* Runs of a streaming handler one after the other on the same store.  The *)
(* remote tables hold the records of Source; a fetch delivers the records  *)
(* of its request, one per batch and in any order, or fails on the way.    *)
(***************************************************************************)
\* a quarter of AAPL updated on the earlier day
M0 == NewSF1Row("AAPL", "ARQ", Day0, Nil, One, Nil, One)

\* the records of SHARADAR/SF1 and SHARADAR/DAILY
Source(endpoint) == IF endpoint = "fundamentals" THEN {M0, M1} ELSE {D3, D1}

\* the runs one after the other
MaxRuns == 2

SourceFeeds(endpoint) ==
  SeqsUpTo({ErrorItem} \cup {Batch(<<r>>) : r \in Source(endpoint)}, MaxItems)

\* a fetch that does not fail delivers every record its request asks for
Complete(endpoint, s, params) ==
  (\A j \in 1..Len(s) : s[j].Error = NoError)
     => \A r \in Source(endpoint) :
           Requested(endpoint, <<r>>, params) => \E j \in 1..Len(s) : s[j].Rows = <<r>>

\* the handler has returned; the next request arrives
NextRun ==
  /\ h.pc = "done"
  /\ writeLog.run + 1 < MaxRuns
  /\ h' = HandlerIdle
  /\ stream' = <<>>
  /\ totalCount' = 0
  /\ writeLog' = [dispatched |-> 0, failed |-> 0, rowsWritten |-> 0,
                  run |-> writeLog.run + 1, sent |-> {}]
  /\ up' = [w \in Workers |-> IdleCall]
  /\ chunkLog' = [w \in Workers |-> <<>>]
  /\ UNCHANGED <<db, ucalls, updatedAt, sem, gst>>

InitResume ==
  /\ LimiterInit
  /\ tableOK = TRUE
  /\ FetchInit("off")
  /\ ParseIdle
  /\ RepoIdle
  /\ IngestIdle

NextResume ==
  \/ \E full \in BOOLEAN :
        FundamentalsStart(Nil, <<"ARQ">>, full) /\ UNCHANGED <<limVars, fetchVars, histVars, parseVars, tickVars>>
  \/ FundamentalsCount /\ UNCHANGED <<limVars, fetchVars, histVars, parseVars, tickVars>>
  \/ FundamentalsDimension /\ UNCHANGED <<limVars, fetchVars, histVars, parseVars, tickVars>>
  \/ (/\ FundamentalsFetch(SourceFeeds("fundamentals"))
      /\ Complete("fundamentals", stream', Deref(h'.request)))
        /\ UNCHANGED <<limVars, fetchVars, histVars, parseVars, tickVars>>
  \/ FundamentalsReceive /\ UNCHANGED <<limVars, fetchVars, histVars, parseVars, tickVars>>
  \/ FundamentalsJoin /\ UNCHANGED <<limVars, fetchVars, histVars, parseVars, tickVars>>
  \/ \E full \in BOOLEAN :
        DailyStart(Nil, full) /\ UNCHANGED <<limVars, fetchVars, histVars, parseVars, tickVars>>
  \/ (/\ DailyFetch(SourceFeeds("daily"))
      /\ Complete("daily", stream', Deref(h'.request)))
        /\ UNCHANGED <<limVars, fetchVars, histVars, parseVars, tickVars>>
  \/ DailySince /\ UNCHANGED <<limVars, fetchVars, histVars, parseVars, tickVars>>
  \/ DailyReceive /\ UNCHANGED <<limVars, fetchVars, histVars, parseVars, tickVars>>
  \/ DailyJoin /\ UNCHANGED <<limVars, fetchVars, histVars, parseVars, tickVars>>
  \/ \E g \in Goroutines :
        Dispatch(g) /\ UNCHANGED <<limVars, fetchVars, histVars, parseVars, tickVars>>
  \/ \E g \in Goroutines :
        UpsertChunk(g) /\ UNCHANGED <<limVars, fetchVars, histVars, parseVars, tickVars, ingestVars>>
  \/ \E g \in Goroutines :
        UpsertReturned(g) /\ UNCHANGED <<limVars, fetchVars, histVars, parseVars, tickVars>>
  \/ \E g \in Goroutines :
        WorkerDone(g) /\ UNCHANGED <<limVars, fetchVars, histVars, parseVars, tickVars>>
  \/ NextRun /\ UNCHANGED <<limVars, fetchVars, histVars, parseVars, tickVars>>

SpecResume == InitResume /\ [][NextResume]_vars

(***************************************************************************)
(* Properties of Client.FetchTable and Client.fetchPage (under Spec).      *)
(***************************************************************************)
Succeeded == pc = "done" /\ result.err = "none"
InFetchPage == pc \in {"wait", "loop", "backoff", "inflight", "failed"}

\* a step in which doRequest puts a request on the wire
RequestSent == pc = "backoff" /\ pc' = "inflight" /\ ~ctxDone
\* a step in which the fetching process spends time asleep, in Wait or in a backoff
SleepsOn ==
  \/ pc = "wait" /\ wsleep'[Fetcher] < wsleep[Fetcher]
  \/ pc = "backoff" /\ sleepLeft' < sleepLeft

\* C1: a successful FetchTable returns exactly the rows of the pages the source
\* served, in the order they were served: none dropped, none duplicated, and the
\* row count is the sum of the pages' row counts.
C1_MergedRows ==
  /\ Succeeded =>
       /\ Deref(result.resp).Data = SourceRows(servedRows)
       /\ Len(Deref(result.resp).Data) = servedRows
  /\ pc \in {"call", "wait", "loop", "backoff", "inflight", "failed"} =>
       allData.Data = SourceRows(servedRows)

C1_Witness ==
  /\ Succeeded
  /\ pagesServed = 2
  /\ Len(Deref(result.resp).Data) = 3

\* C2: the columns FetchTable returns are those of the first page served,
\* whatever the later pages carry.
C2_FirstPageColumns ==
  Succeeded => Deref(result.resp).Columns = Deref(firstColumns)

\* C3: the first page request carries no cursor; a further request is issued
\* exactly when the last page served had a non-empty next_cursor_id, and carries
\* it; after a page with a nil or empty next_cursor_id the fetch returns and every
\* page requested was served.
C3_CursorProtocol ==
  /\ InFetchPage =>
       /\ pageRequests = pagesServed + 1
       /\ pageRequests = 1 => reqCursor = Nil
       /\ pageRequests > 1 => ~Terminal(lastNext) /\ reqCursor = lastNext
  /\ pc = "merge" => pageRequests = pagesServed
  /\ (pc = "call" /\ pageRequests > 0) =>
       ~Terminal(lastNext) /\ pageRequests = pagesServed
  /\ Succeeded => Terminal(lastNext) /\ pageRequests = pagesServed

\* the scenario: 1000 rows with cursor "abc", then 500 rows with an empty cursor
C3_Witness ==
  /\ Succeeded
  /\ Len(Deref(result.resp).Data) = 1500
  /\ pageRequests = 2
  /\ reqCursor = Ptr("abc")
  /\ lastNext = Ptr("")

\* C4: when a page exhausts its retry budget FetchTable returns an error and no
\* response, whatever was merged before, and the failing page is the last one
\* requested.
C4_FailureReturnsNothing ==
  (pc = "done" /\ result.err # "none") =>
     /\ result.resp = Nil
     /\ result.err = "all retries failed" =>
          pageRequests = pagesServed + 1 /\ failures = 3

C4_Witness ==
  /\ pc = "done"
  /\ result.err = "all retries failed"
  /\ pagesServed = 1
  /\ Len(allData.Data) > 0

\* C5: fetchPage calls doRequest at most 3 times per page, makes no attempt after
\* a successful one and returns its response, and reports "all retries failed"
\* only after exactly 3 failed attempts.
C5_AttemptBudget ==
  /\ attempts <= 3
  /\ failures <= attempts
  /\ pc \in {"loop", "backoff", "failed"} => failures = attempts
  /\ pc = "inflight" => failures = attempts - 1
  /\ pc = "merge" =>
       /\ attempts >= 1 /\ failures = attempts - 1
       /\ Deref(resp).NextCursorID = lastNext
  /\ (pc = "done" /\ result.err = "all retries failed") =>
       attempts = 3 /\ failures = 3

C5_Witness ==
  /\ pc = "done"
  /\ result.err = "all retries failed"
  /\ ~ctxDone
  /\ attempts = 3

\* C6: once the cancellation signal has fired, fetchPage puts no further request
\* on the wire and spends no further time asleep, neither in the rate limiter's
\* Wait nor in a retry backoff.
C6_CancelStopsFetchPage == [][ctxDone => ~RequestSent /\ ~SleepsOn]_vars

\* C7: after a decode failure fetchPage makes no further attempt.
C7_DecodeNotRetried == [][lastErr = "decode" => attempts' <= attempts]_vars

\* C9: any two requests of one client are put on the wire at least one limiter
\* interval apart.
C9_RequestSpacing == [][RequestSent => sinceAttempt >= interval]_vars

(***************************************************************************)
(* Properties of rateLimiter.Wait (under SpecLimiter).                     *)
(***************************************************************************)
\* a step in which some call of Wait returns
WaitReturns == \E p \in Procs : wpc[p] = "asleep" /\ wpc'[p] = "returned"

\* no value of lastCall is read by two calls of Wait
DistinctReads == \A i, j \in 1..Len(reads) : i # j => reads[i] # reads[j]

\* at most one call is between its read of lastCall and its update of lastCall
OneInside == Cardinality({p \in Procs : wpc[p] = "asleep"}) <= 1

\* C8: with any number of concurrent callers, a return of Wait comes at least
\* one interval after the previous return, and no two calls compute their delay
\* from the same value of lastCall: read, sleep and update are one critical section.
C8_StrictSpacing ==
  /\ [](DistinctReads /\ OneInside)
  /\ [][WaitReturns => (version = 0 \/ sinceReturn >= interval)]_vars

\* a caller sleeps under the lock after an earlier return while another is blocked
C8_Witness ==
  /\ version >= 2
  /\ \E p, q \in Callers :
       /\ p # q
       /\ wpc[p] = "enter"
       /\ wpc[q] = "asleep" /\ wsleep[q] > 0

(***************************************************************************)
(* Properties of the parsers (under SpecParse).                            *)
(***************************************************************************)
\* the positions of the columns named ticker (at most one: names are unique)
TickerColumns(columns) == {j \in 1..Len(columns) : columns[j] = "ticker"}

\* the row has no ticker: no such column, a row too short for it, null, or ""
TickerMissing(columns, row) ==
  \A j \in TickerColumns(columns) :
     \/ j > Len(row)
     \/ row[j] = NullCell
     \/ row[j] = Str("")

\* C10: whichever parser runs, a data row whose ticker is null, missing or empty
\* is not in the output; every output row is built from one data row, the output
\* keeps the order of the data rows, and it is no longer than the data.
C10_NoKeylessRows ==
  parsed # "none" =>
    /\ Len(rows) <= Len(presp.Data)
    /\ \A k \in 1..Len(rows) :
         /\ rows[k].src \in 1..Len(presp.Data)
         /\ ~TickerMissing(presp.Columns, presp.Data[rows[k].src])
         /\ rows[k].row.Ticker # ""
         /\ \E j \in TickerColumns(presp.Columns) :
              rows[k].row.Ticker = presp.Data[rows[k].src][j].v
    /\ \A k \in 1..(Len(rows) - 1) : rows[k].src < rows[k + 1].src

\* a keyless row ahead of a row that is kept
C10_Witness ==
  /\ parsed = "tickers"
  /\ Len(presp.Data) = 2
  /\ TickerMissing(presp.Columns, presp.Data[1])
  /\ Len(rows) = 1
  /\ rows[1].src = 2

\* C11: ParseSF1, given a row with a valid datekey and no reportperiod, yields a
\* record whose report period equals the datekey.
C11_ReportPeriodFallsBack ==
  parsed = "sf1" =>
    \A k \in 1..Len(rows) :
       getTime(presp.Data[rows[k].src], buildColumnIndex(presp.Columns),
               "reportperiod") = Nil
         => rows[k].row.ReportPeriod = Ptr(rows[k].row.DateKey)

(***************************************************************************)
(* Properties of the repository (under SpecRepo and SpecChunks).           *)
(***************************************************************************)
\* the identity key of each table
IdentityKey(table) ==
  CASE table = "companies" -> {"ticker"}
    [] table = "financial_metrics" -> {"ticker", "dimension", "date_key"}
    [] table = "daily_prices" -> {"ticker", "date"}
    [] table = "benchmark_prices" -> {"ticker", "date"}

SameKey(a, b, table) == \A c \in IdentityKey(table) : a[c] = b[c]

\* writer w has returned from an upsert operation
Returned(w) == up[w].st = "returned"
ChunkedReturned(w) == Returned(w) /\ Chunked(up[w].op) /\ up[w].rows # <<>>

\* a step in which writer w sends a batch; its log entry; its rows
Sends(w) == Len(chunkLog'[w]) = Len(chunkLog[w]) + 1
Entry(w) == chunkLog'[w][Len(chunkLog'[w])]
BatchStmts(w) ==
  [j \in 1..(Entry(w).hi - Entry(w).lo) |-> Stmt(up[w].op, up[w].rows[Entry(w).lo + j])]

RECURSIVE SumCounts(_)
SumCounts(log) == IF log = <<>> THEN 0 ELSE log[1].count + SumCounts(Tail(log))

\* the magnitude of d is above, or below, 10^p (coefficients below 100)
Above(d, p) ==
  d.coef > 0 /\ (d.exp > p \/ (d.exp = p /\ d.coef > 1) \/ (d.exp = p - 1 /\ d.coef > 10))
Below(d, p) ==
  d.coef = 0 \/ d.exp < p - 1 \/ (d.exp = p - 1 /\ d.coef < 10)

\* the limit of a scale: 10^16, 10^14, 10^12
LimitExp(scale) == 18 - scale

\* the decimal fields of the rows with their columns and scales: those checked
\* against a limit, and all of them
CheckedFields(op) ==
  CASE op = "UpsertFinancialMetrics" ->
         { <<"Revenue", "revenue", 2>>, <<"NetIncome", "net_income", 2>>,
           <<"EBITDA", "ebitda", 2>>, <<"FCF", "fcf", 2>>, <<"ROIC", "roic", 4>>,
           <<"PE", "pe_ratio", 4>>, <<"EVEBIT", "ev_ebit", 4>>, <<"PB", "pb_ratio", 4>>,
           <<"DE", "debt_to_equity", 4>>, <<"MarketCap", "market_cap", 2>>,
           <<"EV", "enterprise_value", 2>>, <<"Price", "price", 6>> }
    [] op = "UpsertDailyPrices" ->
         { <<"MarketCap", "market_cap", 2>>, <<"EV", "enterprise_value", 2>>,
           <<"PE", "pe_ratio", 4>>, <<"PB", "pb_ratio", 4>> }
    [] OTHER -> {}

PriceFields ==
  { <<"Open", "open", 6>>, <<"High", "high", 6>>, <<"Low", "low", 6>>,
    <<"Close", "close", 6>>, <<"Dividends", "dividends", 6>>,
    <<"CloseUnadj", "close_unadj", 6>> }

DecimalFields(op) ==
  CASE op = "UpsertFinancialMetrics" -> CheckedFields(op)
    [] op = "UpsertDailyPrices" -> CheckedFields(op) \cup PriceFields
    [] op = "UpsertBenchmarkPrices" -> PriceFields
    [] OTHER -> {}

\* C12: every upsert operation called with an empty slice returns (0, nil), sends
\* no batch, and leaves the store unchanged.
C12_EmptyInputNoOp ==
  /\ [](\A w \in Writers :
          (up[w].st # "idle" /\ up[w].rows = <<>>) =>
             /\ Returned(w)
             /\ up[w].ret = [count |-> 0, err |-> "none"]
             /\ chunkLog[w] = <<>>)
  /\ [][\A w \in Writers :
          (up'[w] # up[w] /\ up'[w].rows = <<>>) => db' = db]_vars

C12_Witness ==
  /\ db.benchmark_prices # {}
  /\ \E w \in Writers :
       /\ Returned(w)
       /\ up[w].op = "UpsertBenchmarkPrices"
       /\ up[w].rows = <<>>
       /\ ucalls = 2

\* C13: no batch any upsert operation sends to the store carries more than 1000
\* rows.
C13_BatchesWithinLimit ==
  \A w \in Writers : \A k \in 1..Len(chunkLog[w]) :
     chunkLog[w][k].hi - chunkLog[w][k].lo <= 1000

\* C14: in UpsertFinancialMetrics and UpsertDailyPrices every chunk of the input
\* is attempted, whatever the chunks before it did; a failing chunk leaves the
\* store as it was, the rows of the chunks that succeeded are in the store at the
\* return, the returned count is the sum of the chunks' counts, and an error is
\* returned exactly when a chunk failed and that sum is zero.
C14_FailedChunkIsolated ==
  /\ [](\A w \in Writers :
          ChunkedReturned(w) =>
            LET log == chunkLog[w]
                n == Len(up[w].rows)
                table == TableOf(up[w].op)
            IN /\ (Len(log) - 1) * 1000 < n /\ n <= Len(log) * 1000
               /\ \A k \in 1..Len(log) :
                    /\ log[k].lo = (k - 1) * 1000
                    /\ log[k].hi = Min(k * 1000, n)
                    /\ log[k].err = "none" =>
                         \A j \in (log[k].lo + 1)..log[k].hi :
                            \E r \in db[table] :
                               SameKey(r, Stmt(up[w].op, up[w].rows[j]), table)
               /\ up[w].ret.count = SumCounts(log)
               /\ up[w].ret.err # "none" <=>
                    (SumCounts(log) = 0 /\ \E k \in 1..Len(log) : log[k].err # "none"))
  /\ [][\A w \in Writers : (Sends(w) /\ Entry(w).err # "none") => db' = db]_vars

\* the first of three chunks fails, the other two are written
C14_Witness ==
  \E w \in Writers :
     /\ ChunkedReturned(w)
     /\ Len(chunkLog[w]) = 3
     /\ chunkLog[w][1].err = "rejected"
     /\ chunkLog[w][2].err = "none"
     /\ chunkLog[w][3].err = "none"
     /\ up[w].ret = [count |-> 1001, err |-> "none"]

\* C15: a chunked upsert operation returns an error exactly when every chunk of
\* the operation failed.
C15_FailsIffAllChunksFailed ==
  \A w \in Writers :
     ChunkedReturned(w) =>
        (up[w].ret.err # "none" <=>
           \A k \in 1..Len(chunkLog[w]) : chunkLog[w][k].err # "none")

\* C16: each table holds one row per identity key; a committed batch leaves, for
\* each key it carries, exactly the values of its last statement with that key,
\* keeps every other row as it was and adds no other row; no step removes a key;
\* a batch whose rows are all in the table already changes nothing.
C16_OneRowPerKeyLastWins ==
  /\ [](\A table \in DOMAIN db : \A a, b \in db[table] :
          SameKey(a, b, table) => a = b)
  /\ [][\A table \in DOMAIN db : \A a \in db[table] :
          \E b \in db'[table] : SameKey(a, b, table)]_vars
  /\ [][\A w \in Writers :
          (Sends(w) /\ Entry(w).err = "none") =>
             LET table == TableOf(up[w].op)
                 stmts == BatchStmts(w)
                 last(j) == \A k \in (j + 1)..Len(stmts) : ~SameKey(stmts[j], stmts[k], table)
             IN /\ \A j \in 1..Len(stmts) : last(j) => stmts[j] \in db'[table]
                /\ \A r \in db[table] :
                     (\A j \in 1..Len(stmts) : ~SameKey(r, stmts[j], table))
                        => r \in db'[table]
                /\ \A r \in db'[table] :
                     r \in db[table] \/ \E j \in 1..Len(stmts) : r = stmts[j]
                /\ (\A j \in 1..Len(stmts) : stmts[j] \in db[table]) => db' = db
                /\ \A other \in DOMAIN db \ {table} : db'[other] = db[other]]_vars

\* two writers upserted the same key, with the key repeated inside the batches
C16_Witness ==
  /\ Returned("u1") /\ up["u1"].rows = <<M1, M2>> /\ up["u1"].ret.err = "none"
  /\ Returned("u2") /\ up["u2"].rows = <<M2, M3, M1>> /\ up["u2"].ret.err = "none"
  /\ db.financial_metrics = {MetricStmt(M1), MetricStmt(M3)}

\* the decimal fields of an operation: all of them, or those its statements pass
\* through sanitizeDecimal
FieldsOf(op, all) == IF all THEN DecimalFields(op) ELSE CheckedFields(op)

\* a value of the fields above the limit of its scale is sent as null, any other
\* value is sent unchanged
SentNulled(all) ==
  \A w \in Writers : \A j \in 1..Len(up[w].rows) :
     \A f \in FieldsOf(up[w].op, all) :
        LET v == up[w].rows[j][f[1]]
            sent == Stmt(up[w].op, up[w].rows[j])[f[2]]
        IN IF v # Nil /\ Above(Deref(v), LimitExp(f[3]))
             THEN sent = Nil
             ELSE sent = v

\* a batch in which every ticker is known and every decimal is nil, below its
\* limit, or above it in one of the fields, is not rejected: its rows are written
RestWritten(all) ==
  \A w \in Writers :
     (/\ Sends(w)
      /\ Chunked(up[w].op)
      /\ \A j \in (Entry(w).lo + 1)..Entry(w).hi :
           /\ up[w].rows[j].Ticker \in Referenced(db, TableOf(up[w].op))
           /\ \A f \in DecimalFields(up[w].op) :
                LET v == up[w].rows[j][f[1]]
                IN \/ v = Nil
                   \/ Below(Deref(v), LimitExp(f[3]))
                   \/ f \in FieldsOf(up[w].op, all) /\ Above(Deref(v), LimitExp(f[3])))
     => /\ Entry(w).err # "rejected"
        /\ Entry(w).err = "none" =>
             \A j \in 1..Len(BatchStmts(w)) :
                \E r \in db'[TableOf(up[w].op)] :
                   SameKey(r, BatchStmts(w)[j], TableOf(up[w].op))

\* C17: every numeric value whose magnitude is above the limit of its column
\* (10^16 for scale 2, 10^14 for scale 4, 10^12 for scale 6) is sent to the
\* store as null, a value in range or nil is sent unchanged, and the other
\* fields of the row and the other rows of the batch are still written.
C17_OverLimitNulled == [](SentNulled(TRUE)) /\ [][RestWritten(TRUE)]_vars

\* the same of the fields that go through sanitizeDecimal only
SanitizedOverLimitNulled == [](SentNulled(FALSE)) /\ [][RestWritten(FALSE)]_vars

\* a row with values above the limit was written, nulled, after a row of the
\* same batch
NulledRowWritten ==
  \E w \in Writers :
     /\ Returned(w)
     /\ up[w].rows = <<M1, M2>>
     /\ up[w].ret = [count |-> 2, err |-> "none"]
     /\ \E r \in db.financial_metrics :
          /\ r.report_period = Day0
          /\ r.revenue = Nil /\ r.pe_ratio = Nil /\ r.price = Nil

\* an open price above the limit of its column was sent as it is, and the
\* batch was rejected
OverLimitPriceRejected ==
  \E w \in Writers :
     /\ Returned(w)
     /\ up[w].rows = <<D1, DOver>>
     /\ Stmt(up[w].op, DOver).open = DOver.Open
     /\ up[w].ret.count = 0
     /\ db.daily_prices = {}

\* C18: no decimal value of a fundamentals, daily-price or benchmark-price row
\* reaches the store unchecked: no value sent is above the limit of its column's
\* scale.
C18_EveryDecimalSanitized ==
  \A w \in Writers : \A j \in 1..Len(up[w].rows) :
     \A f \in DecimalFields(up[w].op) :
        LET sent == Stmt(up[w].op, up[w].rows[j])[f[2]]
        IN sent = Nil \/ ~Above(Deref(sent), LimitExp(f[3]))

\* C19: the count a chunked upsert returns is the number of rows of its input the
\* store holds; for three rows of which the second is rejected it is 2, or 0
\* with an error.
C19_CountMatchesStore ==
  \A w \in Writers :
     (ChunkedReturned(w) /\ ucalls = 1) =>
        LET table == TableOf(up[w].op)
            input == up[w].rows
            held == {j \in 1..Len(input) : Stmt(up[w].op, input[j]) \in db[table]}
        IN /\ (\A j, k \in 1..Len(input) :
                 j # k => ~SameKey(Stmt(up[w].op, input[j]), Stmt(up[w].op, input[k]), table))
                => up[w].ret.count = Cardinality(held)
           /\ (Len(input) = 3 /\ chunkLog[w][1].err = "rejected" /\ chunkLog[w][1].count = 1)
                => \/ up[w].ret.count = 2
                   \/ up[w].ret.count = 0 /\ up[w].ret.err # "none"

(***************************************************************************)
(* Properties of the streaming handlers (under SpecIngest).                *)
(***************************************************************************)
\* C20: every row a handler hands to UpsertFinancialMetrics or UpsertDailyPrices
\* has a ticker that is in the companies table.
C20_OnlyKnownTickersWritten ==
  \A g \in Goroutines :
     up[g].st # "idle" =>
        \A j \in 1..Len(up[g].rows) : CompanyExists(db, up[g].rows[j].Ticker)

\* the goroutines whose upsert call has been entered and has not returned
InFlight == {g \in Goroutines : gst[g] = "upsert" /\ up[g].st = "running"}

\* C21: at no moment are more than 3 upsert calls of a streaming handler in
\* flight.
C21_AtMostThreeInFlight == Cardinality(InFlight) <= 3

\* three upserts are in flight and a fourth batch waits for a slot
C21_Witness ==
  /\ Cardinality(InFlight) = 3
  /\ h.pc = "acquire"
  /\ h.pending # <<>>

\* C22: when a streaming handler produces its response, every upsert it
\* dispatched has returned and no goroutine of it is at work, also after a
\* fetch error.
C22_ResponseAfterWrites ==
  h.pc = "done" => (InFlight = {} /\ \A g \in Goroutines : gst[g] = "free")

\* the response after a fetch error that followed a dispatched batch
C22_Witness ==
  /\ h.pc = "done"
  /\ h.fetchErr # NoError
  /\ \E g \in Goroutines : up[g].st = "returned"

\* the rows in the store that the current unit of work wrote (the tables of
\* fundamentals and of daily prices are empty before the run)
UnitRows ==
  IF h.endpoint = "fundamentals"
    THEN {r \in db.financial_metrics : r.dimension = h.dimension}
    ELSE db.daily_prices

\* C23: a unit of work that met a fetch error and wrote at least one row does
\* not return a failure.
C23_FetchErrorFailsOnlyIfNothingWritten ==
  (h.pc = "done" /\ h.fetchErr # NoError /\ UnitRows # {})
     => Deref(h.response).success

\* C24: the count of a successful streaming result is the sum of the counts
\* returned by the upserts dispatched during the run.
C24_CountIsSumOfReturns ==
  (h.pc = "done" /\ Deref(h.response).success)
     => Deref(h.response).count = writeLog.rowsWritten

\* a successful result to which two upserts contributed
C24_Witness ==
  /\ h.pc = "done"
  /\ Deref(h.response).success
  /\ writeLog.dispatched >= 2
  /\ writeLog.failed = 0
  /\ Deref(h.response).count >= 2

\* C25: a run in which batches were dispatched, every upsert returned an error
\* and no row was written returns success = false.
C25_NothingStoredIsFailure ==
  (/\ h.pc = "done"
   /\ writeLog.dispatched > 0
   /\ writeLog.failed = writeLog.dispatched
   /\ writeLog.rowsWritten = 0
   /\ UnitRows = {})
     => ~Deref(h.response).success

\* C26: every result of an ingestion endpoint, a failure result included,
\* carries the number of rows written during the run (stated for the runs in
\* which no upsert failed, where the counts returned are the rows stored).
C26_ResultCarriesRowsWritten ==
  (h.pc = "done" /\ writeLog.failed = 0)
     => Deref(h.response).count = writeLog.rowsWritten

(***************************************************************************)
(* Properties of the incremental fetch.                                    *)
(***************************************************************************)
\* the table an endpoint writes
DestTable(endpoint) ==
  CASE endpoint = "fundamentals" -> "financial_metrics"
    [] endpoint = "daily" -> "daily_prices"
    [] endpoint = "benchmarks" -> "benchmark_prices"

\* an incremental run whose watermark query went through stands before its
\* fetch, and its destination table is empty
IncrementalOnEmpty ==
  /\ h.pc = "fetch"
  /\ ~h.fullFetch
  /\ h.sinceErr = "none"
  /\ db[DestTable(h.endpoint)] = {}

\* C27: on an empty destination table the watermark query returns 1970-01-01,
\* an incremental run takes it as its since date, and its request carries the
\* lower bound 1970-01-01.
C27_EmptyTableWatermarkIsEpoch ==
  /\ [](\A table \in {"financial_metrics", "daily_prices"} :
          db[table] = {} =>
             GetLastSharadarUpdate(db, table, TRUE) = [time |-> Epoch, err |-> "none"])
  /\ [](db.benchmark_prices = {} =>
          GetLastBenchmarkUpdate(db, TRUE) = [time |-> Epoch, err |-> "none"])
  /\ [](IncrementalOnEmpty => h.since = [y |-> 1970, m |-> 1, d |-> 1])
  /\ [][(IncrementalOnEmpty /\ h'.pc # "fetch")
          => /\ h'.request # Nil
             /\ Deref(h'.request).lastupdated_gte = Ptr(<<1970, 1, 1>>)]_vars

\* the requests of the three endpoints on their empty tables
C27_Witness ==
  /\ h.pc \in {"receive", "upsert"}
  /\ h.endpoint \in {"fundamentals", "daily", "benchmarks"}
  /\ ~h.fullFetch
  /\ h.sinceErr = "none"
  /\ db[DestTable(h.endpoint)] = {}
  /\ h.request # Nil
  /\ Deref(h.request).lastupdated_gte = Ptr(<<1970, 1, 1>>)

\* the store holds the source record r of an endpoint, by its key
Holds(d, endpoint, r) ==
  IF endpoint = "fundamentals"
    THEN \E x \in d.financial_metrics :
            x.ticker = r.Ticker /\ x.date_key = r.DateKey /\ x.dimension = r.Dimension
    ELSE \E x \in d.daily_prices : x.ticker = r.Ticker /\ x.date = r.Date

\* C28: an incremental run of IngestFundamentals that follows an earlier run
\* on the same store and completes (no fetch error, no failed upsert, a
\* success result) leaves in the store every source record of its tickers,
\* which one uninterrupted run stores.
C28_ResumedRunStoresEverySourceRecord ==
  (/\ h.pc = "done"
   /\ writeLog.run > 0
   /\ ~h.fullFetch
   /\ h.response # Nil /\ Deref(h.response).success
   /\ h.fetchErr = NoError
   /\ writeLog.failed = 0
   /\ h.endpoint = "fundamentals")
     => \A r \in Source(h.endpoint) :
           r.Ticker \in h.tickers => Holds(db, h.endpoint, r)

\* one uninterrupted run on the empty store leaves every source record in it
UninterruptedRunStoresEverySourceRecord ==
  (/\ h.pc = "done"
   /\ writeLog.run = 0
   /\ h.response # Nil /\ Deref(h.response).success
   /\ h.fetchErr = NoError
   /\ writeLog.failed = 0
   /\ h.endpoint \in {"fundamentals", "daily"})
     => \A r \in Source(h.endpoint) :
           r.Ticker \in h.tickers => Holds(db, h.endpoint, r)

(***************************************************************************)
(* Properties of the column updated_at.                                    *)
(***************************************************************************)
\* the rows of a batch that went through carry the time of the batch in updated_at
Refreshed(w, tables) ==
  (Sends(w) /\ Entry(w).err = "none" /\ TableOf(up[w].op) \in tables)
    => LET table == TableOf(up[w].op)
           stmts == BatchStmts(w)
       IN \A j \in 1..Len(stmts) :
             /\ Key(table, stmts[j]) \in DOMAIN updatedAt'[table]
             /\ updatedAt'[table][Key(table, stmts[j])] = NOW

\* C29: every upsert into companies, financial_metrics, daily_prices and
\* benchmark_prices refreshes updated_at of each row it inserts or replaces.
C29_UpsertRefreshesUpdatedAt ==
  [][\A w \in Writers :
       Refreshed(w, {"companies", "financial_metrics", "daily_prices",
                     "benchmark_prices"})]_vars

\* the upserts into companies and financial_metrics refresh updated_at
UpdatedAtRefreshedWhereAssigned ==
  [][\A w \in Writers : Refreshed(w, {"companies", "financial_metrics"})]_vars

\* a company was replaced and carries the time of the later call
CompanyReplaced ==
  /\ db.companies = {CompanyStmt(AppleInc)}
  /\ updatedAt.companies[Key("companies", CompanyStmt(AppleInc))] > 0

(***************************************************************************)
(* Properties of the write semaphore (under SpecSlots).                    *)
(***************************************************************************)
\* the goroutines started and not yet at their end
AtWork == {g \in Goroutines : gst[g] = "upsert"}

\* C30: every slot of the write semaphore in use was taken before its writer
\* started and is given back when the upsert of that writer has returned,
\* with an error or not; the dispatcher that waits on the full semaphore gets
\* a slot as the upserts return, and after the join no slot is in use.
C30_SlotsFollowWriters ==
  /\ [](sem = Cardinality(AtWork))
  /\ [][\A g \in Goroutines :
          /\ (gst[g] = "free" /\ gst'[g] = "upsert") => sem' = sem + 1
          /\ (gst[g] = "upsert" /\ gst'[g] = "free")
               => (up[g].st = "returned" /\ sem' = sem - 1)]_vars
  /\ [](h.pc \in {"dimension", "done"} => sem = 0)
  /\ ((h.pc = "acquire" /\ sem = maxDBParallel) ~> (sem < maxDBParallel))
  /\ ((h.pc = "join") ~> (sem = 0))

\* the dispatcher waits on the full semaphore while an upsert has returned an
\* error and its goroutine still holds its slot
C30_Witness ==
  /\ h.pc = "acquire"
  /\ sem = maxDBParallel
  /\ \E g \in AtWork : up[g].st = "returned" /\ up[g].ret.err # "none"

(***************************************************************************)
(* Properties of the end of a stream.                                      *)
(***************************************************************************)
\* the handler of an endpoint has returned and the stream has delivered every
\* item: no item is left that a producer still has to send
Drained(endpoints) ==
  (h.pc = "done" /\ h.endpoint \in endpoints) => stream = <<>>

DailyReadsToTheEnd == Drained({"daily"})

(***************************************************************************)
(* Properties of the order of the writes.                                  *)
(***************************************************************************)
\* the orders in which the batches of a set can be written one after the other
Orders(batches) ==
  {f \in [1..Cardinality(batches) -> batches] :
      \A j, k \in 1..Cardinality(batches) : j # k => f[j] # f[k]}

RECURSIVE Concat(_)
Concat(seqs) == IF seqs = <<>> THEN <<>> ELSE Head(seqs) \o Concat(Tail(seqs))

\* the table after the batches of order were written to the empty table, one
\* after the other
WrittenInOrder(op, order) ==
  LET stmts == Queue(op, Concat(order))
  IN ExecRange({}, stmts, 1, Len(stmts), ConflictTarget(TableOf(op)), SetList(TableOf(op)))

\* a daily run has returned, it dispatched each of its batches once and no
\* upsert of it failed
CleanDailyRun ==
  /\ h.pc = "done"
  /\ h.endpoint = "daily"
  /\ writeLog.failed = 0
  /\ writeLog.dispatched = Cardinality(writeLog.sent)
  /\ writeLog.dispatched > 0

\* C32: the daily prices a streaming run leaves in the store are those of its
\* batches written in any one order: no delivery order and no interleaving of
\* the writers ends in other contents.
C32_FinalStoreIndependentOfOrder ==
  CleanDailyRun =>
     \A order \in Orders(writeLog.sent) :
        db.daily_prices = WrittenInOrder("UpsertDailyPrices", order)

(***************************************************************************)
(* Properties of the chunk loop (under SpecChunks).                        *)
(***************************************************************************)
\* ceil(n / dbBatchSize)
ChunkCount(n) == (n + dbBatchSize - 1) \div dbBatchSize

\* C33: a call of UpsertFinancialMetrics or UpsertDailyPrices with n > 0 rows
\* has sent ceil(n/1000) chunks when it returns: the first starts at row 0,
\* each starts where the one before ended, the last ends at row n, every
\* chunk but the last has 1000 rows and the last has 1 to 1000.
C33_ChunksPartitionInput ==
  \A w \in Writers :
     ChunkedReturned(w) =>
        LET log == chunkLog[w]
            n == Len(up[w].rows)
        IN /\ Len(log) = ChunkCount(n)
           /\ log[1].lo = 0
           /\ log[Len(log)].hi = n
           /\ \A k \in 1..Len(log) :
                 /\ k < Len(log) => (log[k].hi - log[k].lo = 1000 /\ log[k + 1].lo = log[k].hi)
                 /\ log[k].hi - log[k].lo >= 1
                 /\ log[k].hi - log[k].lo <= 1000

\* a call with 2000 rows has returned after two chunks
C33_Witness ==
  /\ ChunkedReturned("u1")
  /\ Len(up["u1"].rows) = 2000
  /\ Len(chunkLog["u1"]) = 2

(***************************************************************************)
(* Properties of the filter of the daily requests.                         *)
(***************************************************************************)
\* C34: an incremental request of Client.FetchDaily (here for the benchmark
\* prices) bounds the date of the records, the field the watermark is the
\* maximum of: it carries date.gte = the watermark, and no bound on
\* lastupdated.
C34_DailyRequestBoundsDate ==
  (/\ h.endpoint = "benchmarks"
   /\ h.request # Nil
   /\ ~h.fullFetch
   /\ h.sinceErr = "none")
     => /\ Deref(h.request).date_gte = Ptr(Format(h.since))
        /\ Deref(h.request).lastupdated_gte = Nil

(***************************************************************************)
(* Properties of the since date of the dimensions.                         *)
(***************************************************************************)
\* the watermark of financial_metrics when the run starts
StartingWatermark == GetLastSharadarUpdate(InitialDB, "financial_metrics", TRUE).time

\* C35: in an incremental run of IngestFundamentals the since date of every
\* dimension is no later than the watermark the table had when the run
\* started: the rows written for an earlier dimension do not raise it.
C35_SinceNoLaterThanStartingWatermark ==
  (/\ h.endpoint = "fundamentals"
   /\ h.pc \in {"fetch", "receive", "acquire", "join"}
   /\ ~h.fullFetch
   /\ ~IsZero(h.since))
     => DayNumber(Format(h.since)) <= DayNumber(Format(StartingWatermark))

(***************************************************************************)
(* Properties of a failed watermark query.                                 *)
(***************************************************************************)
\* C36: an incremental run whose watermark query returned an error issues no
\* fetch and returns a failure result.
C36_WatermarkFailurePropagates ==
  (~h.fullFetch /\ h.sinceErr # "none")
     => /\ h.request = Nil
        /\ h.pc = "done" => ~Deref(h.response).success

(***************************************************************************)
(* Rows and watermarks across upserts (under SpecRepo).                    *)
(***************************************************************************)
\* the watermark of a table, as the watermark queries compute it
LastUpdate(d, table) ==
  IF table = "benchmark_prices"
    THEN GetLastBenchmarkUpdate(d, TRUE).time
    ELSE GetLastSharadarUpdate(d, table, TRUE).time

\* no step removes a key of a table, and the watermark of none of the tables
\* goes back
Kept(tables) ==
  /\ \A table \in DOMAIN db : \A a \in db[table] :
        \E b \in db'[table] : SameKey(a, b, table)
  /\ \A table \in tables :
        DayNumber(Format(LastUpdate(db, table))) <=
          DayNumber(Format(LastUpdate(db', table)))

\* C37: across the upserts no row is removed from a table and the watermark of
\* no table decreases: MAX(date) of daily_prices and of benchmark_prices and
\* MAX(last_updated) of financial_metrics, also when a stored fundamentals row
\* is upserted again with an older or null last_updated.
C37_RowsKeptWatermarksNonDecreasing ==
  [][Kept({"daily_prices", "benchmark_prices", "financial_metrics"})]_vars

\* the rows are kept and the watermarks that are a MAX(date) do not decrease
RowsKeptDateWatermarksNonDecreasing ==
  [][Kept({"daily_prices", "benchmark_prices"})]_vars

\* the one fundamentals row stored carries no last_updated
UndatedMetricStored ==
  /\ db.financial_metrics = {MetricStmt(M1Undated)}
  /\ LastUpdate(db, "financial_metrics") = Epoch

(***************************************************************************)
(* What sanitizeDecimal lets through against the columns (under SpecRepo). *)
(***************************************************************************)
\* C38: every non-null value sanitizeDecimal passes through for scale 2, 4 or 6
\* fits a DECIMAL(18, scale) column, its magnitude being strictly below
\* 10^(18 - scale); a value whose magnitude is the limit exactly is nulled, so
\* that no sanitized value makes the store reject the batch.
C38_SanitizedValueFitsColumn ==
  \A w \in Writers : \A j \in 1..Len(up[w].rows) :
     \A f \in CheckedFields(up[w].op) :
        /\ f[3] \in {2, 4, 6}
        /\ Fits(sanitizeDecimal(up[w].rows[j][f[1]], f[3]), f[3])
        /\ Stmt(up[w].op, up[w].rows[j])[f[2]] = sanitizeDecimal(up[w].rows[j][f[1]], f[3])

(***************************************************************************)
(* The tables IngestBenchmarks touches (under SpecIngest).                 *)
(***************************************************************************)
\* the store takes the benchmark rows of the call: every ticker is a benchmark
\* and every price fits its column
Acceptable(rs) ==
  \A j \in 1..Len(rs) :
     /\ rs[j].Ticker \in GetBenchmarkTickers(db)
     /\ \A f \in PriceFields : Fits(rs[j][f[1]], f[3])

\* C39: every run of IngestBenchmarks, successful or failed, leaves companies,
\* financial_metrics and daily_prices unchanged (no step of the request or of
\* its upsert changes them, whatever IngestTickers does beside it) and writes
\* only rows of benchmark_prices whose ticker was read from the benchmarks
\* table; the rows are not checked against the companies: rows of benchmark
\* tickers are not rejected, whatever the companies table holds.
C39_BenchmarksApartFromCompanies ==
  /\ [][(h'.endpoint = "benchmarks" /\ (h' # h \/ up'[Self] # up[Self])) =>
          /\ \A table \in {"companies", "financial_metrics", "daily_prices"} :
                db'[table] = db[table]
          /\ \A r \in db'.benchmark_prices \ db.benchmark_prices :
                r.ticker \in h'.tickers /\ h'.tickers = GetBenchmarkTickers(db)]_vars
  /\ [](h.endpoint = "benchmarks" /\ up[Self].st = "returned" /\ Acceptable(up[Self].rows)
          => /\ up[Self].ret.err # "rejected"
             /\ up[Self].ret.err = "none" =>
                  \A j \in 1..Len(up[Self].rows) :
                     \E r \in db.benchmark_prices :
                        SameKey(r, Stmt("UpsertBenchmarkPrices", up[Self].rows[j]),
                                "benchmark_prices"))

\* a run stored the prices of a benchmark that is no company, with no company
\* in the store at all
C39_Witness ==
  /\ h.endpoint = "benchmarks" /\ h.pc = "done"
  /\ Deref(h.response).success /\ Deref(h.response).count = 2
  /\ db.companies = {}
  /\ \E r \in db.benchmark_prices : r.ticker = "SPY" /\ ~CompanyExists(db, r.ticker)

=============================================================================
